---- MODULE Spec2Model ----
(***************************************************************************)
(* Seedmancer: the schema/data snapshot engine.                            *)
(*                                                                         *)
(* Part 1  the Dependency Orderer (sortTablesByDependencies), in its two   *)
(*         variants: database/mysql.go and the earlier PostgreSQL variant. *)
(* Part 2  the Restore Orchestrator (RestoreFromCSV, createTable,          *)
(*         addForeignKeys, importCSV) of database/postgres.go and          *)
(*         database/mysql.go, run against a model of the target database.  *)
(* Part 4  the Type Codec of database/postgres.go: the text of an exported *)
(*         cell and processCSVValue.                                       *)
(* Part 5  the Synthetic Data Generator of database/faker.go.              *)
(* Part 6  the enum columns GetSchema of database/mysql.go collects.       *)
(* Part 7  schema.json: ExportSchema and ReadSchemaFromFile.               *)
(* Part 8  a second RestoreFromCSV on the same snapshot.                   *)
(* Part 9  the orders the Dependency Orderer can return.                   *)
(* Part 10 one cell through exportTableToCSV and importCSV, on either      *)
(*         engine.                                                         *)
(* Part 11 the sequence reset and the transactions of a restore.           *)
(* Part 12 the connection pool under a restore.                            *)
(* Part 13 the integer keys the generator writes.                          *)
(* Part 14 present and absent text values.                                 *)
(*                                                                         *)
(* Table names are numbers: 1..n are the tables of the schema, in list     *)
(* order; EmptyName stands for the empty string; any other number is the   *)
(* name of a table that is not in the schema.                              *)
(***************************************************************************)
EXTENDS Integers, Sequences, FiniteSets, TLC

\* ---------------------------------------------------------------- bounds
\* Tables of a schema handed to the Dependency Orderer alone.
SortTables == 3
\* Foreign-key columns of such a schema, all tables together.
SortFKs == 2
\* Tables of a schema that is restored.
MaxTables == 2
\* Foreign-key columns of a restored schema, all tables together.
MaxFKs == 1
\* Enum types of a restored schema.
MaxEnums == 1
\* Data lines of a snapshot, all row files together.
MaxRows == 2

\* The empty string, as a table name ("" in the source).
EmptyName == 0

\* ------------------------------------------------------------ data model
\* Table: a name and, for each foreign-key column in column order, the
\* table it references (ForeignKey.Table).
Table(n, f) == [name |-> n, fks |-> f]

Range(s) == {s[k] : k \in 1..Len(s)}

Names(tables) == {tables[k].name : k \in 1..Len(tables)}

\* The sequences over S of length at most m.
SeqsUpTo(S, m) == UNION {[1..k -> S] : k \in 0..m}

\* The table lists <<1, ..., n>> whose foreign keys, at most `budget` of
\* them in all, reference names of `targets`.
RECURSIVE TableLists(_, _, _)
TableLists(n, targets, budget) ==
  IF n = 0 THEN {<<>>}
  ELSE UNION {{Append(rest, Table(n, f)) :
                 rest \in TableLists(n - 1, targets, budget - Len(f))} :
              f \in SeqsUpTo(targets, budget)}

Reverse(s) == [k \in 1..Len(s) |-> s[Len(s) + 1 - k]]

\* ------------------------------------- Dependency Orderer, mysql.go variant
\* tableMap[name].Name != "": the name is a key of tableMap (names of the
\* list are never empty).
InTableMap(tables, name) == name # EmptyName /\ name \in Names(tables)

\* dependencies[name]: the referenced tables of the table's foreign-key
\* columns, in column order; nil for a name that is no key.
Dependencies(tables, name) ==
  IF \E k \in 1..Len(tables) : tables[k].name = name
  THEN (CHOOSE t \in Range(tables) : t.name = name).fks
  ELSE <<>>

TableNamed(tables, name) == CHOOSE t \in Range(tables) : t.name = name

\* The state of one run: sorted, visited, tempMark, and the path map that
\* the recursive calls of one root share.
RECURSIVE MyVisit(_, _, _)
RECURSIVE MyVisitDeps(_, _, _, _)
\* A faulty loop over the dependencies that ends at the first one that is
\* no table of the list, instead of passing over it (the faulty variant of
\* MyVisitDeps that C22 rules out).
RECURSIVE MyVisitDepsEndingAtAbsent(_, _, _, _)
MyVisitDepsEndingAtAbsent(tables, deps, k, st) ==
  IF k > Len(deps) THEN st
  ELSE IF ~InTableMap(tables, deps[k]) THEN st
  ELSE MyVisitDepsEndingAtAbsent(tables, deps, k + 1,
                                 IF deps[k] \notin st.path THEN MyVisit(tables, deps[k], st) ELSE st)

MyVisitDeps(tables, deps, k, st) ==
  IF k > Len(deps) THEN st
  ELSE LET dep == deps[k]
           st2 == IF dep # EmptyName /\ InTableMap(tables, dep) /\ dep \notin st.path
                  THEN MyVisit(tables, dep, st)
                  ELSE st
       IN MyVisitDeps(tables, deps, k + 1, st2)

MyVisit(tables, name, st) ==
  IF name = EmptyName THEN st
  ELSE IF name \in st.tempMark THEN st
  ELSE IF name \in st.visited THEN st
  ELSE LET entered == [st EXCEPT !.tempMark = @ \cup {name}, !.path = @ \cup {name}]
           after == MyVisitDeps(tables, Dependencies(tables, name), 1, entered)
           left == [after EXCEPT !.visited = @ \cup {name},
                                 !.tempMark = @ \ {name},
                                 !.path = @ \ {name}]
       IN IF InTableMap(tables, name)
          THEN [left EXCEPT !.sorted = Append(@, TableNamed(tables, name))]
          ELSE left

\* The loop over the keys of the dependencies map: Go leaves the iteration
\* order of a map unspecified, so every order of the keys is an outcome.
RECURSIVE MyRoots(_, _, _)
MyRoots(tables, keys, st) ==
  IF keys = {} THEN {st.sorted}
  ELSE UNION {MyRoots(tables, keys \ {r},
                      IF r \notin st.visited /\ r # EmptyName
                      THEN MyVisit(tables, r, [st EXCEPT !.path = {}])
                      ELSE st) : r \in keys}

\* A faulty reversal that loses the last table of the list (the faulty
\* variant of MyReverse that C1 rules out).
ReverseDroppingLast(sorted) == Reverse(SubSeq(sorted, 1, Len(sorted) - 1))

\* The final reversal of the post-order list.
MyReverse(sorted) == Reverse(sorted)

MySortResults(tables) ==
  {MyReverse(s) : s \in MyRoots(tables, Names(tables),
                    [sorted |-> <<>>, visited |-> {}, tempMark |-> {}, path |-> {}])}

\* --------------------------- Dependency Orderer, earlier PostgreSQL variant
\* deps[name]: the set of referenced table names (a map used as a set).
LgDeps(t) == Range(t.fks)

RECURSIVE LgVisit(_, _, _)
RECURSIVE LgVisitDeps(_, _, _)
RECURSIVE LgVisitAll(_, _, _)
\* visit(t) for every table of the list named dep, in list order, from
\* every state of S.
LgVisitAll(tables, dep, S) ==
  LET hits == {k \in 1..Len(tables) : tables[k].name = dep}
  IN IF hits = {} THEN S
     ELSE UNION {LgVisit(tables, tables[CHOOSE k \in hits : TRUE], st) : st \in S}

\* The loop over the keys of deps[table.Name], in every order.
LgVisitDeps(tables, D, st) ==
  IF D = {} THEN {st}
  ELSE UNION {UNION {LgVisitDeps(tables, D \ {d}, st2) :
                       st2 \in LgVisitAll(tables, d, {st})} : d \in D}

LgVisit(tables, t, st) ==
  IF t.name \in st.visiting THEN {st}
  ELSE IF t.name \in st.visited THEN {st}
  ELSE {[after EXCEPT !.visiting = @ \ {t.name},
                      !.visited = @ \cup {t.name},
                      !.sorted = Append(@, t)] :
          after \in LgVisitDeps(tables, LgDeps(t),
                                [st EXCEPT !.visiting = @ \cup {t.name}])}

RECURSIVE LgRoots(_, _, _)
LgRoots(tables, k, S) ==
  IF k > Len(tables) THEN {st.sorted : st \in S}
  ELSE LgRoots(tables, k + 1,
               UNION {IF tables[k].name \notin st.visited
                      THEN LgVisit(tables, tables[k], st)
                      ELSE {st} : st \in S})

LgSortResults(tables) ==
  LgRoots(tables, 1, {[sorted |-> <<>>, visited |-> {}, visiting |-> {}]})


\* ------------------------------------------------------------------ state
VARIABLES
  engine,        \* "postgres" or "mysql": the manager that runs; "legacy" for the earlier orderer
  connected,     \* DB != nil
  schema,        \* the parsed schema.json: [tables, enums]
  dbTables,      \* target database: the tables that exist
  dbNoCol,       \* target database: the existing tables that lack the referenced key column
  dbEnums,       \* target database: the enum types that exist
  dbFKs,         \* target database: the foreign-key constraints that exist
  dbRows,        \* target database: the committed rows of each table
  created,       \* the tables this run created (the others existed and were truncated)
  sortedTables,  \* the result of sortTablesByDependencies
  pc,            \* position of the run
  ti,            \* index of the current table (or enum) in the loop of the phase
  ci,            \* index of the current foreign-key column in addForeignKeys
  defers,        \* the deferred calls RestoreFromCSV has registered
  tx,            \* the transaction of the function in progress: none, open, committed, rolledback
  txRows,        \* the rows sent inside the open transaction, not yet committed
  files,         \* what has been read of each table's row file: [status, rows]
  stmts,         \* the statements the database has executed, in order
  warned,        \* the foreign keys a warning was logged for
  result         \* running, ok, error: what RestoreFromCSV returned

\* The state of one cell on its way through the Type Codec.
VARIABLES
  cpc,           \* position of the cell: idle, native, text, imported
  colType,       \* the declared type of the cell's column (Column.Type)
  native,        \* the value the driver scanned from the source database
  text,          \* the field of the row file
  imported       \* the value processCSVValue hands to the insert

codecVars == <<cpc, colType, native, text, imported>>

\* No value yet: the cell has not been scanned, or not been imported.
NoValue == [k |-> "none"]

\* The codec at rest, while something else runs.
CodecIdle ==
  /\ cpc = "idle" /\ colType = "" /\ native = NoValue /\ text = <<>> /\ imported = NoValue

\* The state of the synthetic-data generator (database/faker.go).
VARIABLES
  gpc,              \* position of the run: idle, reset, pools, tables, done, failed
  run,              \* which generation run of the process this is
  genSchema,        \* the schema ExtractSchema returned
  rowCount,         \* rows to generate for each table
  tj,               \* index of the table the second pass is at
  generatedValues,  \* "table.column" -> the pool of generated key values
  idCounters,       \* table -> the last id handed out
  uniqueValueSets,  \* column name -> the values handed out as unique
  issued,           \* how many identifiers the UUID source has handed out
  outFiles,         \* file name -> header and rows written
  firstRun          \* pools and row files as the first run left them

genVars ==
  <<gpc, run, genSchema, rowCount, tj, generatedValues, idCounters, uniqueValueSets,
    issued, outFiles, firstRun>>

\* An empty Go map.
EmptyMap == [k \in {} |-> <<>>]

\* The generator at rest, while something else runs.
GenIdle ==
  /\ gpc = "idle" /\ run = 0 /\ genSchema = <<>> /\ rowCount = 0 /\ tj = 1
  /\ generatedValues = EmptyMap /\ idCounters = EmptyMap /\ uniqueValueSets = EmptyMap
  /\ issued = 0 /\ outFiles = EmptyMap /\ firstRun = EmptyMap

\* The state of a schema on its way through schema.json, and of one enum
\* column on its way through the MySQL introspection.
VARIABLES
  spc,          \* position of the schema: idle, built, exported, read, failed
  origSchema,   \* the Schema that is exported
  schemaFile,   \* the JSON document in schema.json
  readSchema,   \* the Schema read back
  epc,          \* position of the enum column: idle, declared, parsed
  declared,     \* the members of the column's enum as the database declares them
  enumValues    \* enumValues as GetSchema collected them

schemaVars == <<spc, origSchema, schemaFile, readSchema, epc, declared, enumValues>>

\* No schema and no enum column under way.
SchemaIdle ==
  /\ spc = "idle" /\ origSchema = NoValue /\ schemaFile = NoValue /\ readSchema = NoValue
  /\ epc = "idle" /\ declared = <<>> /\ enumValues = <<>>

\* A second run of RestoreFromCSV on the same snapshot directory.
VARIABLES
  runNo,        \* which run of RestoreFromCSV this is
  firstDB,      \* the database as the first run left it
  firstFiles,   \* the row files as the first run read them
  firstWarned   \* the foreign keys the first run skipped with a warning

rerunVars == <<runNo, firstDB, firstFiles, firstWarned>>

\* The first run.
RerunIdle ==
  /\ runNo = 1 /\ firstDB = NoValue /\ firstFiles = NoValue /\ firstWarned = {}

\* The sequences behind the serial columns.
VARIABLES
  seq           \* per table: the sequence was not touched (unset), was set to
                \* follow the loaded rows (reset), or its reset failed (failed)

NoSeq == [t \in 1..MaxTables |-> "unset"]

\* The connection pool of the *sql.DB and the sessions behind it.
VARIABLES
  sessions,     \* per connection: closed, or the enforcement of the session
                \* it is (enforcing, suspended)
  freeConn,     \* the idle connections, the one freed last at the end
  txConn,       \* the connection the open transaction holds, 0 for none
  loadedOn      \* the enforcement of the sessions rows were loaded on

poolVars == <<sessions, freeConn, txConn, loadedOn>>

\* Connections the pool can have open at a time.
MaxConns == 3

Conns == 1..MaxConns

\* No pool under way.
PoolIdle ==
  /\ sessions = [c \in Conns |-> "closed"] /\ freeConn = <<>> /\ txConn = 0 /\ loadedOn = {}

auxVars == <<rerunVars, seq, poolVars>>

AuxIdle == RerunIdle /\ seq = NoSeq /\ PoolIdle

vars == <<engine, connected, schema, dbTables, dbNoCol, dbEnums, dbFKs, dbRows, created,
          sortedTables, pc, ti, ci, defers, tx, txRows, files, stmts, warned, result,
          codecVars, genVars, schemaVars, auxVars>>

TableIds == 1..MaxTables

NoFiles == [t \in TableIds |-> [status |-> "unread", rows |-> <<>>]]

NoRows == [t \in 1..(MaxTables + 1) |-> <<>>]

\* ---------------------------------------------- the Dependency Orderer alone
\* The schemas handed to the orderer: 1..n tables, foreign keys into tables
\* of the list, into the empty name and into a table that is not in the list.
SortSchemas ==
  UNION {TableLists(n, 0..(n + 1), SortFKs) : n \in 1..SortTables}

SortInit ==
  /\ engine \in {"mysql", "legacy"}
  /\ connected = TRUE
  /\ schema \in {[tables |-> tl, enums |-> <<>>] : tl \in SortSchemas}
  /\ dbTables = {} /\ dbNoCol = {} /\ dbEnums = {} /\ dbFKs = {}
  /\ dbRows = NoRows
  /\ created = {}
  /\ sortedTables = <<>>
  /\ pc = "sort"
  /\ ti = 1 /\ ci = 1
  /\ defers = <<>>
  /\ tx = "none" /\ txRows = <<>>
  /\ files = NoFiles
  /\ stmts = <<>>
  /\ warned = {}
  /\ result = "running"
  /\ CodecIdle
  /\ GenIdle
  /\ SchemaIdle
  /\ AuxIdle

\* sortedTables := sortTablesByDependencies(schema.Tables), mysql.go
MySort ==
  /\ pc = "sort" /\ engine = "mysql"
  /\ \E r \in MySortResults(schema.tables) : sortedTables' = r
  /\ pc' = "tables"
  /\ ti' = 1
  /\ UNCHANGED <<engine, connected, schema, dbTables, dbNoCol, dbEnums, dbFKs, dbRows,
                 created, ci, defers, tx, txRows, files, stmts, warned, result, codecVars, genVars, schemaVars,
                 auxVars>>

\* sortedTables := sortTablesByDependencies(schema.Tables), earlier variant
LgSort ==
  /\ pc = "sort" /\ engine = "legacy"
  /\ \E r \in LgSortResults(schema.tables) : sortedTables' = r
  /\ pc' = "tables"
  /\ ti' = 1
  /\ UNCHANGED <<engine, connected, schema, dbTables, dbNoCol, dbEnums, dbFKs, dbRows,
                 created, ci, defers, tx, txRows, files, stmts, warned, result, codecVars, genVars, schemaVars,
                 auxVars>>

SortNext == MySort \/ LgSort

SpecSort == SortInit /\ [][SortNext]_vars


\* ------------------------------------------- the foreign-key graph of a list
\* The tables of the list that `name` has a foreign key into.
Refs(tables, name) == Range(Dependencies(tables, name)) \cap Names(tables)

RECURSIVE Closure(_, _)
Closure(tables, S) ==
  LET more == S \cup UNION {Refs(tables, a) : a \in S}
  IN IF more = S THEN S ELSE Closure(tables, more)

\* The tables reached from `name` along one or more foreign keys.
Reaches(tables, name) == Closure(tables, Refs(tables, name))

Acyclic(tables) == \A a \in Names(tables) : a \notin Reaches(tables, a)


\* ------------------------------------------------------------------ C1, C2
\* C1: for every foreign-key graph over the table list (acyclic, cyclic,
\* self-referencing, with references outside the list) the orderer returns
\* a list that holds every input table exactly once.
C1_SortedIsPermutation ==
  pc = "tables" =>
    /\ Len(sortedTables) = Len(schema.tables)
    /\ \A k \in 1..Len(schema.tables) :
         Cardinality({j \in 1..Len(sortedTables) : sortedTables[j] = schema.tables[k]}) = 1

\* C1 witness: a sorted list for a graph in which two tables reference
\* each other.
C1_Witness ==
  /\ pc = "tables"
  /\ Len(sortedTables) = Len(schema.tables)
  /\ \E a, b \in Names(schema.tables) :
       /\ a # b
       /\ b \in Refs(schema.tables, a)
       /\ a \in Refs(schema.tables, b)

\* C2: for an acyclic foreign-key graph, every table comes after every
\* table it has a foreign key into.
C2_ReferencedFirst ==
  (pc = "tables" /\ Acyclic(schema.tables)) =>
    \A k \in 1..Len(sortedTables) :
      \A b \in Refs(schema.tables, sortedTables[k].name) :
        \E j \in 1..(k - 1) : sortedTables[j].name = b


\* ========================================================================
\* Part 2: the Restore Orchestrator
\* ========================================================================

\* A statement the database executed: its kind (suspend, enum, create,
\* truncate, fk, load, enable), the table it is about and its argument
\* (create: the foreign keys written inline; fk: the referenced table;
\* load: the data line).
Stmt(kind, table, arg) == [kind |-> kind, table |-> table, arg |-> arg]

\* A foreign-key constraint: owning table, foreign-key column, referenced table.
FK(table, col, target) == [table |-> table, col |-> col, target |-> target]

\* A row of a table: one that was there before the run, or a data line of
\* the table's row file.
OldRow == [src |-> "old", line |-> 1]
FileRow(k) == [src |-> "file", line |-> k]

\* The data lines of a row file: a well-formed record, a record with the
\* wrong number of fields, a well-formed record with a value outside an
\* enum's domain.
RowKinds == {"ok", "short", "enum"}

RECURSIVE SumRows(_, _)
SumRows(f, n) == IF n = 0 THEN 0 ELSE Len(f[n].rows) + SumRows(f, n - 1)

\* Data lines read so far, all row files together.
TotalRows == SumRows(files, MaxTables)

SchemaFKs(tables) ==
  UNION {{FK(tables[k].name, c, tables[k].fks[c]) : c \in 1..Len(tables[k].fks)} :
           k \in 1..Len(tables)}

\* The schemas that are restored: tables 1..MaxTables with foreign keys into
\* tables of the schema and into a table MaxTables+1 that is not in it;
\* MaxEnums enum types.
RestoreSchemas ==
  {[tables |-> tl, enums |-> [k \in 1..MaxEnums |-> k]] :
     tl \in TableLists(MaxTables, 1..(MaxTables + 1), MaxFKs)}

\* The constraints a target database already holds when it was restored
\* from this schema before.
PreExisting(tables, present, nocol) ==
  {c \in SchemaFKs(tables) : c.table \in present /\ c.target \in present \ nocol}

\* The names foreign keys of the schema reference.
Targets(tables) == {c.target : c \in SchemaFKs(tables)}

\* The state RestoreFromCSV is called in: a manager, the schema of a
\* snapshot and a target database. The database is fresh (it has no table
\* and no enum type of the schema) or was restored from this schema before
\* (it has the schema's tables, each with a row of its own, its enum types
\* and its constraints); a referenced table outside the schema exists or
\* not; one referenced table that exists may lack the referenced column
\* (only addForeignKeys of postgres.go looks the column up). A manager
\* without a connection returns at once, whatever the snapshot, so it is
\* given one snapshot only.
Init ==
  /\ engine \in {"postgres", "mysql"}
  /\ schema \in RestoreSchemas
  /\ connected \in IF schema = (CHOOSE sc \in RestoreSchemas : TRUE) THEN BOOLEAN ELSE {TRUE}
  /\ dbTables \in {base \cup ext : base \in {{}, Names(schema.tables)},
                                    ext \in SUBSET (Targets(schema.tables) \ Names(schema.tables))}
  /\ dbNoCol \in {{}} \cup {{t} : t \in {u \in dbTables \cap Targets(schema.tables) :
                                            engine = "postgres"}}
  /\ dbEnums = IF Names(schema.tables) \subseteq dbTables THEN Range(schema.enums) ELSE {}
  /\ dbFKs = PreExisting(schema.tables, dbTables, dbNoCol)
  /\ dbRows = [t \in 1..(MaxTables + 1) |-> IF t \in dbTables THEN <<OldRow>> ELSE <<>>]
  /\ created = {}
  /\ sortedTables = <<>>
  /\ pc = "start"
  /\ ti = 1 /\ ci = 1
  /\ defers = <<>>
  /\ tx = "none" /\ txRows = <<>>
  /\ files = NoFiles
  /\ stmts = <<>>
  /\ warned = {}
  /\ result = "running"
  /\ CodecIdle
  /\ GenIdle
  /\ SchemaIdle
  /\ AuxIdle

\* ------------------------------------------------ returning from the restore
\* A faulty re-enabling that runs on the success return alone (the faulty
\* variant of RunDeferredEnable that C8 rules out).
EnableOnSuccessOnly(res, log) ==
  IF res = "ok" /\ "enable" \in Range(defers)
  THEN Append(log, Stmt("enable", EmptyName, <<>>))
  ELSE log

\* The deferred re-enabling statement, run when RestoreFromCSV returns `res`
\* (its result is not looked at).
RunDeferredEnable(res, log) ==
  IF "enable" \in Range(defers) THEN Append(log, Stmt("enable", EmptyName, <<>>)) ELSE log

\* The deferred rollback of mysql.go: it reads the function's own err
\* variable, which the error returns of the inner scopes do not set.
RunDeferredRollback(outerErr, txNow) ==
  IF "rollback" \in Range(defers) /\ outerErr /\ txNow = "open" THEN "rolledback" ELSE txNow

\* return from RestoreFromCSV: the deferred calls run.
Return(res, outerErr, log, txNow) ==
  /\ result' = res
  /\ pc' = "done"
  /\ stmts' = RunDeferredEnable(res, log)
  /\ tx' = RunDeferredRollback(outerErr, txNow)


\* The variables no step of a restore changes.
inputs == <<engine, connected, schema, dbNoCol, codecVars, genVars, schemaVars, auxVars>>

CurTable == schema.tables[ti]

\* ------------------------------------------ PostgresManager.RestoreFromCSV
\* createTable(table, false): the foreign keys written into CREATE TABLE.
PgCreateTableFKs(table) == <<>>

\* TRUNCATE TABLE name CASCADE: the tables emptied are the named one and,
\* transitively, the tables with a foreign-key constraint into an emptied one.
RECURSIVE Cascade(_)
Cascade(S) ==
  LET more == S \cup {c.table : c \in {d \in dbFKs : d.target \in S}}
  IN IF more = S THEN S ELSE Cascade(more)

\* A faulty truncation that leaves every row where it is (the faulty
\* variant of PgTruncate that C21 rules out).
PgTruncateKeepingRows(name) == dbRows

PgTruncate(name) == [t \in DOMAIN dbRows |-> IF t \in Cascade({name}) THEN <<>> ELSE dbRows[t]]

\* The rollback deferred by importCSV: it runs Rollback when the function's
\* own err variable is set; the err of the read loop, of stmt.Close and of
\* tx.Commit are variables of inner scopes.
PgImportDeferred(outerErr, txNow) ==
  IF outerErr /\ txNow = "open" THEN "rolledback" ELSE txNow

\* DB == nil; SET session_replication_role = 'replica' and its deferred reset.
PgStart ==
  /\ pc = "start" /\ engine = "postgres"
  /\ \/ /\ ~connected
        /\ Return("error", FALSE, stmts, tx)
        /\ UNCHANGED defers
     \/ /\ connected
        /\ stmts' = Append(stmts, Stmt("suspend", EmptyName, <<>>))
        /\ defers' = <<"enable">>
        /\ pc' = "readschema"
        /\ UNCHANGED <<result, tx>>
     \/ /\ connected
        /\ Return("error", FALSE, stmts, tx)
        /\ UNCHANGED defers
  /\ UNCHANGED <<inputs, sortedTables, dbTables, dbEnums, dbFKs, dbRows, created, ti, ci,
                 txRows, files, warned>>

\* ReadSchemaFromFile(directory/schema.json)
PgReadSchema ==
  /\ pc = "readschema" /\ engine = "postgres"
  /\ \/ /\ pc' = "enums" /\ ti' = 1
        /\ UNCHANGED <<result, stmts, tx>>
     \/ /\ Return("error", FALSE, stmts, tx)
        /\ UNCHANGED ti
  /\ UNCHANGED <<inputs, sortedTables, dbTables, dbEnums, dbFKs, dbRows, created, ci, defers,
                 txRows, files, warned>>

\* One turn of the loop over schema.Enums: the existence query, CREATE TYPE.
PgEnum ==
  /\ pc = "enums" /\ engine = "postgres" /\ ti <= Len(schema.enums)
  /\ LET e == schema.enums[ti] IN
     \/ /\ Return("error", FALSE, stmts, tx)
        /\ UNCHANGED <<ti, dbEnums>>
     \/ /\ e \in dbEnums
        /\ ti' = ti + 1
        /\ UNCHANGED <<pc, result, stmts, tx, dbEnums>>
     \/ /\ e \notin dbEnums
        /\ dbEnums' = dbEnums \cup {e}
        /\ stmts' = Append(stmts, Stmt("enum", e, <<>>))
        /\ ti' = ti + 1
        /\ UNCHANGED <<pc, result, tx>>
  /\ UNCHANGED <<inputs, sortedTables, dbTables, dbFKs, dbRows, created, ci, defers,
                 txRows, files, warned>>

PgEnumsDone ==
  /\ pc = "enums" /\ engine = "postgres" /\ ti > Len(schema.enums)
  /\ pc' = "tables" /\ ti' = 1
  /\ UNCHANGED <<inputs, sortedTables, dbTables, dbEnums, dbFKs, dbRows, created, ci, defers,
                 tx, txRows, files, stmts, warned, result>>

\* One turn of the loop over schema.Tables: the existence query, then
\* createTable or TRUNCATE ... CASCADE.
PgTable ==
  /\ pc = "tables" /\ engine = "postgres" /\ ti <= Len(schema.tables)
  /\ LET t == CurTable.name IN
     \/ /\ Return("error", FALSE, stmts, tx)
        /\ UNCHANGED <<ti, dbTables, dbRows, created>>
     \/ /\ t \notin dbTables
        /\ dbTables' = dbTables \cup {t}
        /\ created' = created \cup {t}
        /\ stmts' = Append(stmts, Stmt("create", t, PgCreateTableFKs(CurTable)))
        /\ ti' = ti + 1
        /\ UNCHANGED <<pc, result, tx, dbRows>>
     \/ /\ t \in dbTables
        /\ dbRows' = PgTruncate(t)
        /\ stmts' = Append(stmts, Stmt("truncate", t, <<>>))
        /\ ti' = ti + 1
        /\ UNCHANGED <<pc, result, tx, dbTables, created>>
  /\ UNCHANGED <<inputs, sortedTables, dbEnums, dbFKs, ci, defers, txRows, files, warned>>

PgTablesDone ==
  /\ pc = "tables" /\ engine = "postgres" /\ ti > Len(schema.tables)
  /\ pc' = "fks" /\ ti' = 1 /\ ci' = 1
  /\ UNCHANGED <<inputs, sortedTables, dbTables, dbEnums, dbFKs, dbRows, created, defers,
                 tx, txRows, files, stmts, warned, result>>

\* addForeignKeys, one foreign-key column: the two existence queries, then
\* ALTER TABLE ... ADD CONSTRAINT.
PgAddForeignKey ==
  /\ pc = "fks" /\ engine = "postgres" /\ ti <= Len(schema.tables)
  /\ ci <= Len(CurTable.fks)
  /\ LET g == CurTable.fks[ci]
         c == FK(CurTable.name, ci, g)
     IN
     \/ /\ Return("error", FALSE, stmts, tx)
        /\ UNCHANGED <<ci, warned, dbFKs>>
     \/ /\ g \notin dbTables \/ g \in dbNoCol
        /\ warned' = warned \cup {c}
        /\ ci' = ci + 1
        /\ UNCHANGED <<pc, result, stmts, tx, dbFKs>>
     \/ /\ g \in dbTables /\ g \notin dbNoCol
        /\ c \in dbFKs
        /\ ci' = ci + 1
        /\ UNCHANGED <<pc, result, stmts, tx, dbFKs, warned>>
     \/ /\ g \in dbTables /\ g \notin dbNoCol
        /\ c \notin dbFKs
        /\ dbFKs' = dbFKs \cup {c}
        /\ stmts' = Append(stmts, Stmt("fk", CurTable.name, <<g>>))
        /\ ci' = ci + 1
        /\ UNCHANGED <<pc, result, tx, warned>>
     \/ /\ g \in dbTables /\ g \notin dbNoCol
        /\ c \notin dbFKs
        /\ warned' = warned \cup {c}
        /\ ci' = ci + 1
        /\ UNCHANGED <<pc, result, stmts, tx, dbFKs>>
  /\ UNCHANGED <<inputs, sortedTables, dbTables, dbEnums, dbRows, created, ti, defers,
                 txRows, files>>

\* addForeignKeys returns nil: on to the next table.
PgFKsNextTable ==
  /\ pc = "fks" /\ engine = "postgres" /\ ti <= Len(schema.tables)
  /\ ci > Len(CurTable.fks)
  /\ ti' = ti + 1 /\ ci' = 1
  /\ UNCHANGED <<inputs, sortedTables, dbTables, dbEnums, dbFKs, dbRows, created, pc, defers,
                 tx, txRows, files, stmts, warned, result>>

PgFKsDone ==
  /\ pc = "fks" /\ engine = "postgres" /\ ti > Len(schema.tables)
  /\ pc' = "load" /\ ti' = 1
  /\ UNCHANGED <<inputs, sortedTables, dbTables, dbEnums, dbFKs, dbRows, created, ci, defers,
                 tx, txRows, files, stmts, warned, result>>

\* One turn of the import loop over schema.Tables: os.Stat of <table>.csv,
\* then importCSV up to the prepared COPY statement: os.Open, DB.Begin, the
\* header line, tx.Prepare(pq.CopyIn(...)). The last two assign the
\* function's own err, so the deferred rollback runs for them.
PgLoad ==
  /\ pc = "load" /\ engine = "postgres" /\ ti <= Len(schema.tables)
  /\ LET t == CurTable.name IN
     \/ /\ files' = [files EXCEPT ![t].status = "absent"]
        /\ ti' = ti + 1
        /\ UNCHANGED <<pc, result, stmts, tx, txRows>>
     \/ /\ Return("error", FALSE, stmts, tx)
        /\ UNCHANGED <<files, ti, txRows>>
     \/ /\ files' = [files EXCEPT ![t].status = "open"]
        /\ Return("error", FALSE, stmts, PgImportDeferred(TRUE, "open"))
        /\ UNCHANGED <<ti, txRows>>
     \/ /\ files' = [files EXCEPT ![t].status = "open"]
        /\ tx' = "open"
        /\ txRows' = <<>>
        /\ pc' = "rows"
        /\ UNCHANGED <<ti, result, stmts>>
  /\ UNCHANGED <<inputs, sortedTables, dbTables, dbEnums, dbFKs, dbRows, created, ci, defers,
                 warned>>

\* importCSV: one turn of the read loop that reads a data line. A row the
\* database will reject may be buffered by the COPY statement first and
\* rejected when the statement is closed. The error returns of the loop
\* leave the transaction as it is.
PgImportRow ==
  /\ pc = "rows" /\ engine = "postgres"
  /\ TotalRows < MaxRows
  /\ LET t == CurTable.name
         line == Len(files[t].rows) + 1
     IN
     \/ /\ files' = [files EXCEPT ![t].rows = Append(@, "short")]
        /\ Return("error", FALSE, stmts, PgImportDeferred(FALSE, tx))
        /\ UNCHANGED txRows
     \/ /\ \E kind \in RowKinds \ {"short"} :
             /\ files' = [files EXCEPT ![t].rows = Append(@, kind)]
             /\ txRows' = Append(txRows, [line |-> line, kind |-> kind])
        /\ stmts' = Append(stmts, Stmt("load", t, <<line>>))
        /\ UNCHANGED <<pc, result, tx>>
     \/ /\ \E kind \in RowKinds \ {"short"} :
             files' = [files EXCEPT ![t].rows = Append(@, kind)]
        /\ Return("error", FALSE, stmts, PgImportDeferred(FALSE, tx))
        /\ UNCHANGED txRows
  /\ UNCHANGED <<inputs, sortedTables, dbTables, dbEnums, dbFKs, dbRows, created, ti, ci,
                 defers, warned>>

\* The tables with a column whose default calls nextval or whose type is
\* serial.
SerialTables == {1}

\* setval(...) on the sequence of the table's serial column. A sequence is
\* not transactional: a value set stays set when the transaction ends in a
\* rollback.
ResetSequence(t) == IF t \in SerialTables THEN [seq EXCEPT ![t] = "reset"] ELSE seq

\* importCSV at the end of the file: stmt.Close() ends the COPY and fails
\* when a buffered row is rejected; the sequences of the serial columns are
\* reset with tx.Exec; tx.Commit(); the import loop goes on to the next
\* table. A statement that fails inside a transaction puts the transaction
\* in the failed state: the server refuses every statement after it, the
\* second form of the reset included, and pq's Commit of a failed
\* transaction rolls back and returns ErrInFailedTransaction. The failed
\* reset is logged only, so the error importCSV returns is that of Commit.
PgImportFinish ==
  /\ pc = "rows" /\ engine = "postgres"
  /\ files' = [files EXCEPT ![CurTable.name].status = "eof"]
  /\ \/ /\ Return("error", FALSE, stmts, PgImportDeferred(FALSE, tx))
        /\ UNCHANGED <<dbRows, txRows, ti, seq>>
     \/ /\ \A k \in 1..Len(txRows) : txRows[k].kind = "ok"
        /\ CurTable.name \in SerialTables
        /\ seq' = [seq EXCEPT ![CurTable.name] = "failed"]
        /\ Return("error", FALSE, stmts, "rolledback")
        /\ UNCHANGED <<dbRows, txRows, ti>>
     \/ /\ \A k \in 1..Len(txRows) : txRows[k].kind = "ok"
        /\ seq' = ResetSequence(CurTable.name)
        /\ Return("error", FALSE, stmts, "rolledback")
        /\ UNCHANGED <<dbRows, txRows, ti>>
     \/ /\ \A k \in 1..Len(txRows) : txRows[k].kind = "ok"
        /\ seq' = ResetSequence(CurTable.name)
        /\ dbRows' = [dbRows EXCEPT ![CurTable.name] =
                        @ \o [k \in 1..Len(txRows) |-> FileRow(txRows[k].line)]]
        /\ tx' = "committed"
        /\ txRows' = <<>>
        /\ pc' = "load"
        /\ ti' = ti + 1
        /\ UNCHANGED <<result, stmts>>
  /\ UNCHANGED <<engine, connected, schema, dbNoCol, codecVars, genVars, schemaVars, rerunVars,
                 poolVars, sortedTables, dbTables, dbEnums, dbFKs, created, ci, defers, warned>>

\* return nil
PgLoadDone ==
  /\ pc = "load" /\ engine = "postgres" /\ ti > Len(schema.tables)
  /\ Return("ok", FALSE, stmts, tx)
  /\ UNCHANGED <<inputs, sortedTables, dbTables, dbEnums, dbFKs, dbRows, created, ti, ci,
                 defers, txRows, files, warned>>

PgNext ==
  \/ PgStart \/ PgReadSchema \/ PgEnum \/ PgEnumsDone \/ PgTable \/ PgTablesDone
  \/ PgAddForeignKey \/ PgFKsNextTable \/ PgFKsDone \/ PgLoad \/ PgImportRow
  \/ PgImportFinish \/ PgLoadDone


\* --------------------------------------------- MySQLManager.RestoreFromCSV
CurSorted == sortedTables[ti]

\* createTable(table, schema): the foreign keys written into CREATE TABLE.
MyCreateTableFKs(table) == table.fks

\* A faulty TRUNCATE that leaves the rows where they are (the faulty variant
\* of MyTruncate that C5 rules out).
TruncateNothing(name) == dbRows

\* TRUNCATE TABLE name
MyTruncate(name) == [dbRows EXCEPT ![name] = <<>>]

\* DB == nil; DB.Begin() and the deferred rollback.
MyStart ==
  /\ pc = "start" /\ engine = "mysql"
  /\ \/ /\ Return("error", FALSE, stmts, tx)
        /\ UNCHANGED defers
     \/ /\ connected
        /\ tx' = "open"
        /\ defers' = <<"rollback">>
        /\ pc' = "suspend"
        /\ UNCHANGED <<result, stmts>>
  /\ UNCHANGED <<inputs, sortedTables, dbTables, dbEnums, dbFKs, dbRows, created, ti, ci,
                 txRows, files, warned>>

\* SET FOREIGN_KEY_CHECKS = 0 and its deferred reset.
MySuspend ==
  /\ pc = "suspend" /\ engine = "mysql"
  /\ \/ /\ Return("error", FALSE, stmts, tx)
        /\ UNCHANGED defers
     \/ /\ stmts' = Append(stmts, Stmt("suspend", EmptyName, <<>>))
        /\ defers' = Append(defers, "enable")
        /\ pc' = "readschema"
        /\ UNCHANGED <<result, tx>>
  /\ UNCHANGED <<inputs, sortedTables, dbTables, dbEnums, dbFKs, dbRows, created, ti, ci,
                 txRows, files, warned>>

\* schema, err := ReadSchemaFromFile(...): the one error that sets the
\* function's own err.
MyReadSchema ==
  /\ pc = "readschema" /\ engine = "mysql"
  /\ \/ Return("error", TRUE, stmts, tx)
     \/ /\ pc' = "sort"
        /\ UNCHANGED <<result, stmts, tx>>
  /\ UNCHANGED <<inputs, sortedTables, dbTables, dbEnums, dbFKs, dbRows, created, ti, ci,
                 defers, txRows, files, warned>>

\* One turn of the loop over sortedTables: the existence query, then
\* createTable or TRUNCATE.
MyTable ==
  /\ pc = "tables" /\ engine = "mysql" /\ ti <= Len(sortedTables)
  /\ LET t == CurSorted.name
         inline == MyCreateTableFKs(CurSorted)
     IN
     \/ /\ Return("error", FALSE, stmts, tx)
        /\ UNCHANGED <<ti, dbTables, dbRows, dbFKs, created>>
     \/ /\ t \notin dbTables
        /\ dbTables' = dbTables \cup {t}
        /\ created' = created \cup {t}
        /\ dbFKs' = dbFKs \cup {FK(t, c, inline[c]) : c \in 1..Len(inline)}
        /\ stmts' = Append(stmts, Stmt("create", t, inline))
        /\ ti' = ti + 1
        /\ UNCHANGED <<pc, result, tx, dbRows>>
     \/ /\ t \in dbTables
        /\ dbRows' = MyTruncate(t)
        /\ stmts' = Append(stmts, Stmt("truncate", t, <<>>))
        /\ ti' = ti + 1
        /\ UNCHANGED <<pc, result, tx, dbTables, dbFKs, created>>
  /\ UNCHANGED <<inputs, sortedTables, dbEnums, ci, defers, txRows, files, warned>>

MyTablesDone ==
  /\ pc = "tables" /\ engine = "mysql" /\ ti > Len(sortedTables)
  /\ pc' = "load" /\ ti' = 1
  /\ UNCHANGED <<inputs, sortedTables, dbTables, dbEnums, dbFKs, dbRows, created, ci, defers,
                 tx, txRows, files, stmts, warned, result>>

\* One turn of the import loop over sortedTables: os.Stat of <table>.csv,
\* then importCSV up to the prepared INSERT: os.Open, the header line,
\* DB.Prepare.
MyLoad ==
  /\ pc = "load" /\ engine = "mysql" /\ ti <= Len(sortedTables)
  /\ LET t == CurSorted.name IN
     \/ /\ files' = [files EXCEPT ![t].status = "absent"]
        /\ ti' = ti + 1
        /\ UNCHANGED <<pc, result, stmts, tx>>
     \/ /\ Return("error", FALSE, stmts, tx)
        /\ UNCHANGED <<files, ti>>
     \/ /\ files' = [files EXCEPT ![t].status = "open"]
        /\ pc' = "rows"
        /\ UNCHANGED <<ti, result, stmts, tx>>
  /\ UNCHANGED <<inputs, sortedTables, dbTables, dbEnums, dbFKs, dbRows, created, ci, defers,
                 txRows, warned>>

\* The INSERT of one data line, executed through the pool and not through
\* the transaction: the row is committed at once.
MyInsert(name, line) == [dbRows EXCEPT ![name] = Append(@, FileRow(line))]

\* importCSV: one turn of the read loop that reads a data line. An insert
\* that fails with "Data truncated for column" is logged and the row skipped.
MyImportRow ==
  /\ pc = "rows" /\ engine = "mysql"
  /\ TotalRows < MaxRows
  /\ LET t == CurSorted.name
         line == Len(files[t].rows) + 1
     IN
     \/ /\ files' = [files EXCEPT ![t].rows = Append(@, "short")]
        /\ Return("error", FALSE, stmts, tx)
        /\ UNCHANGED dbRows
     \/ /\ files' = [files EXCEPT ![t].rows = Append(@, "ok")]
        /\ dbRows' = MyInsert(t, line)
        /\ stmts' = Append(stmts, Stmt("load", t, <<line>>))
        /\ UNCHANGED <<pc, result, tx>>
     \/ /\ files' = [files EXCEPT ![t].rows = Append(@, "ok")]
        /\ Return("error", FALSE, stmts, tx)
        /\ UNCHANGED dbRows
     \/ /\ files' = [files EXCEPT ![t].rows = Append(@, "enum")]
        /\ UNCHANGED <<pc, result, stmts, tx, dbRows>>
  /\ UNCHANGED <<inputs, sortedTables, dbTables, dbEnums, dbFKs, created, ti, ci, defers,
                 txRows, warned>>

\* importCSV at the end of the file: return nil; the import loop goes on to
\* the next table.
MyImportFinish ==
  /\ pc = "rows" /\ engine = "mysql"
  /\ files' = [files EXCEPT ![CurSorted.name].status = "eof"]
  /\ pc' = "load"
  /\ ti' = ti + 1
  /\ UNCHANGED <<inputs, sortedTables, dbTables, dbEnums, dbFKs, dbRows, created, ci, defers,
                 tx, txRows, stmts, warned, result>>

\* tx.Commit() and return
MyLoadDone ==
  /\ pc = "load" /\ engine = "mysql" /\ ti > Len(sortedTables)
  /\ \/ Return("ok", FALSE, stmts, "committed")
     \/ Return("error", FALSE, stmts, "rolledback")
  /\ UNCHANGED <<inputs, sortedTables, dbTables, dbEnums, dbFKs, dbRows, created, ti, ci,
                 defers, txRows, files, warned>>

MyNext ==
  \/ MyStart \/ MySuspend \/ MyReadSchema \/ MySort \/ MyTable \/ MyTablesDone
  \/ MyLoad \/ MyImportRow \/ MyImportFinish \/ MyLoadDone

Next == PgNext \/ MyNext

Spec == Init /\ [][Next]_vars


\* ========================================================================
\* Part 3: properties of a restore run
\* ========================================================================

\* The phases a statement belongs to: 1 enum creation, 2 table creation or
\* truncation, 3 foreign-key attachment, 4 row load. A CREATE TABLE that
\* carries foreign-key clauses is a table step and an attachment step.
Phases(s) ==
  CASE s.kind = "enum" -> {1}
    [] s.kind = "truncate" -> {2}
    [] s.kind = "create" -> IF s.arg = <<>> THEN {2} ELSE {2, 3}
    [] s.kind = "fk" -> {3}
    [] s.kind = "load" -> {4}
    [] OTHER -> {}

PhasesOrdered(log) ==
  \A i, j \in 1..Len(log) :
    i < j => \A p \in Phases(log[i]) : \A q \in Phases(log[j]) : p <= q

\* C3: the statements of a run are in phase order (enum creation, table
\* creation or truncation, foreign-key attachment, row load), and once the
\* run has returned no further statement is executed.
C3_PhaseOrder ==
  /\ [](PhasesOrdered(stmts))
  /\ [][result # "running" => UNCHANGED stmts]_vars

\* The tables of the schema that have had their table step in the log.
TableStepsDone(log) ==
  {log[k].table : k \in {i \in 1..Len(log) : log[i].kind \in {"create", "truncate"}}}

\* C4: a statement that issues a foreign-key constraint comes only after
\* every table of the schema has been created or truncated.
C4_NoConstraintBeforeAllTables ==
  \A k \in 1..Len(stmts) :
    3 \in Phases(stmts[k]) =>
      Names(schema.tables) \subseteq TableStepsDone(SubSeq(stmts, 1, k))

\* The data lines of t's row file that were well-formed and in the enum's
\* domain, as rows, in file order.
RECURSIVE KeptRows(_, _)
KeptRows(t, n) ==
  IF n = 0 THEN <<>>
  ELSE IF files[t].rows[n] = "ok"
       THEN Append(KeptRows(t, n - 1), FileRow(n))
       ELSE KeptRows(t, n - 1)

AllRows(t) == [k \in 1..Len(files[t].rows) |-> FileRow(k)]

MissingTarget == {c \in SchemaFKs(schema.tables) : c.target \notin dbTables \/ c.target \in dbNoCol}

\* C6: after a restore that returned success, every foreign key of a created
\* table whose referenced table or column is missing was skipped with a
\* warning: it is logged and the database holds no such constraint.
C6_MissingTargetSkipped ==
  result = "ok" =>
    \A c \in MissingTarget : c.table \in created => c \in warned /\ c \notin dbFKs

\* C7: for an acyclic foreign-key graph no row of a table is loaded before a
\* row of a table it references.
C7_LoadInDependencyOrder ==
  Acyclic(schema.tables) =>
    \A i, j \in 1..Len(stmts) :
      (i < j /\ stmts[i].kind = "load" /\ stmts[j].kind = "load") =>
        stmts[j].table \notin Refs(schema.tables, stmts[i].table)

\* C8: every row load comes after the suspending statement and before any
\* re-enabling statement, and when a run that suspended enforcement has
\* returned, by success or by error, its last statement is the re-enabling.
C8_SuspendedAroundLoad ==
  /\ \A k \in 1..Len(stmts) :
       stmts[k].kind = "load" =>
         /\ \E i \in 1..(k - 1) : stmts[i].kind = "suspend"
         /\ \A i \in 1..(k - 1) : stmts[i].kind # "enable"
  /\ (result # "running" /\ \E i \in 1..Len(stmts) : stmts[i].kind = "suspend") =>
       /\ stmts[Len(stmts)].kind = "enable"
       /\ Cardinality({i \in 1..Len(stmts) : stmts[i].kind = "enable"}) = 1

\* C8 witness: a run that loaded a row and then returned an error.
C8_Witness ==
  /\ result = "error"
  /\ \E k \in 1..Len(stmts) : stmts[k].kind = "load"
  /\ stmts[Len(stmts)].kind = "enable"

\* A step that reads a data line with the wrong number of fields.
ReadsShortRow ==
  \E t \in TableIds : files'[t].rows = Append(files[t].rows, "short")

\* C9: the step that reads a data line with the wrong number of fields does
\* not end the restore.
C9_MismatchAbortsTableOnly == [][ReadsShortRow => result' = "running"]_vars

\* C10: when the restore has failed inside the load of a table, none of the
\* file's rows is in the table: it is as the table step left it, empty.
C10_LoadAtomic ==
  result = "error" =>
    \A t \in Names(schema.tables) : files[t].status = "open" => dbRows[t] = <<>>


\* ========================================================================
\* Part 4: the Type Codec (exportTableToCSV, processCSVValue, fixSimpleJSON)
\* ========================================================================

\* A text (a Go string) is a sequence of tokens. A token is one character
\* (a punctuation mark, a space, a digit), a whole word (a maximal run of
\* letters), or a run the time layouts read as a unit (a date with time of
\* day, a zone offset).

\* Digits of the fractional second kept by a timestamp (6 in PostgreSQL).
FracDigits == 2
\* Largest magnitude of an integer cell.
MaxInt == 12

Digits == <<"0", "1", "2", "3", "4", "5", "6", "7", "8", "9">>

IsDigit(c) == c \in Range(Digits)

DigitVal(c) == (CHOOSE n \in 1..10 : Digits[n] = c) - 1

RECURSIVE Pow10(_)
Pow10(n) == IF n = 0 THEN 1 ELSE 10 * Pow10(n - 1)

\* The decimal digits of a natural number.
RECURSIVE NatText(_)
NatText(n) == IF n < 10 THEN <<Digits[n + 1]>> ELSE Append(NatText(n \div 10), Digits[(n % 10) + 1])

\* The number a run of decimal digits denotes.
RECURSIVE DigitsValue(_)
DigitsValue(s) ==
  IF s = <<>> THEN 0 ELSE 10 * DigitsValue(SubSeq(s, 1, Len(s) - 1)) + DigitVal(s[Len(s)])

AllDigits(s) == s # <<>> /\ \A k \in 1..Len(s) : IsDigit(s[k])

Contains(s, c) == \E k \in 1..Len(s) : s[k] = c

HasPrefix(s, c) == s # <<>> /\ s[1] = c

HasSuffix(s, c) == s # <<>> /\ s[Len(s)] = c

\* strings.ReplaceAll(s, from, to) for one-character from and to.
ReplaceAll(s, from, to) == [k \in 1..Len(s) |-> IF s[k] = from THEN to ELSE s[k]]

\* White space, for strings.TrimSpace and for encoding/json alike.
IsSpace(c) == c \in {" ", "\t", "\n"}

\* strings.TrimSpace
RECURSIVE TrimSpace(_)
TrimSpace(s) ==
  IF s = <<>> THEN s
  ELSE IF IsSpace(s[1]) THEN TrimSpace(Tail(s))
  ELSE IF IsSpace(s[Len(s)]) THEN TrimSpace(SubSeq(s, 1, Len(s) - 1))
  ELSE s

\* ------------------------------------------------- json.Unmarshal(text, &js)
\* Whether a text is one JSON value (RFC 8259, as encoding/json accepts it):
\* a string, a number, true, false, null, an object or an array, with
\* white space around it.
IsJSONString(s) ==
  /\ Len(s) >= 2
  /\ s[1] = "\"" /\ s[Len(s)] = "\""
  /\ \A k \in 2..(Len(s) - 1) : s[k] # "\""

IsJSONNumber(s) ==
  LET d == IF HasPrefix(s, "-") THEN Tail(s) ELSE s
  IN AllDigits(d) /\ (Len(d) = 1 \/ d[1] # "0")

IsJSONLiteral(s) == s \in {<<"true">>, <<"false">>, <<"null">>}

RECURSIVE IsJSONValue(_)
RECURSIVE IsJSONMembers(_)
RECURSIVE IsJSONElements(_)
\* "name" : value
IsJSONMember(s) ==
  \E k \in 1..Len(s) :
    /\ s[k] = ":"
    /\ IsJSONString(TrimSpace(SubSeq(s, 1, k - 1)))
    /\ IsJSONValue(SubSeq(s, k + 1, Len(s)))

IsJSONMembers(s) ==
  \/ IsJSONMember(s)
  \/ \E k \in 1..Len(s) :
       /\ s[k] = ","
       /\ IsJSONMember(SubSeq(s, 1, k - 1))
       /\ IsJSONMembers(SubSeq(s, k + 1, Len(s)))

IsJSONElements(s) ==
  \/ IsJSONValue(s)
  \/ \E k \in 1..Len(s) :
       /\ s[k] = ","
       /\ IsJSONValue(SubSeq(s, 1, k - 1))
       /\ IsJSONElements(SubSeq(s, k + 1, Len(s)))

IsJSONValue(text0) ==
  LET s == TrimSpace(text0)
      inner == SubSeq(s, 2, Len(s) - 1)
  IN \/ IsJSONString(s)
     \/ IsJSONNumber(s)
     \/ IsJSONLiteral(s)
     \/ /\ Len(s) >= 2 /\ s[1] = "{" /\ s[Len(s)] = "}"
        /\ (TrimSpace(inner) = <<>> \/ IsJSONMembers(inner))
     \/ /\ Len(s) >= 2 /\ s[1] = "[" /\ s[Len(s)] = "]"
        /\ (TrimSpace(inner) = <<>> \/ IsJSONElements(inner))

\* ------------------------------------------------------------ Go values
\* What database/sql scans into an interface{} and what processCSVValue
\* returns: nil, a bool, an int64, a []byte or string (a text), a time.Time.
GoNil == [k |-> "nil"]

GoBool(b) == [k |-> "bool", b |-> b]

GoInt(n) == [k |-> "int", n |-> n]

GoBytes(s) == [k |-> "bytes", s |-> s]

GoString(s) == [k |-> "string", s |-> s]

\* A time.Time: the wall clock (a date and an hour; minutes and seconds are
\* zero), the fractional second in units of 10^-FracDigits s, and the offset
\* of its location east of UTC in hours.
GoTime(date, hour, frac, off) == [k |-> "time", date |-> date, hour |-> hour, frac |-> frac, off |-> off]

\* Time.Equal: two times are the same instant.
SameInstant(t, u) ==
  /\ t.k = "time" /\ u.k = "time"
  /\ t.date = u.date /\ t.hour - t.off = u.hour - u.off /\ t.frac = u.frac

Dates == {"2024-01-01"}

TwoDigits(n) == <<Digits[(n \div 10) + 1], Digits[(n % 10) + 1]>>

IsTwoDigits(s) == Len(s) = 2 /\ AllDigits(s)

\* %d of an int64
IntText(n) == IF n < 0 THEN <<"-">> \o NatText(0 - n) ELSE NatText(n)

\* ------------------------------------------------------ Time.Format
\* Dropping the trailing zeros of a run of digits.
RECURSIVE TrimZeros(_)
TrimZeros(s) ==
  IF s # <<>> /\ s[Len(s)] = "0" THEN TrimZeros(SubSeq(s, 1, Len(s) - 1)) ELSE s

\* The digits of frac, padded with zeros on the left to FracDigits digits.
RECURSIVE PadFrac(_, _)
PadFrac(frac, width) ==
  IF width = 0 THEN <<>> ELSE Append(PadFrac(frac \div 10, width - 1), Digits[(frac % 10) + 1])

\* The layout element .999999: the fraction without its trailing zeros, and
\* nothing at all, not even the point, when the fraction is zero.
FormatFrac(frac) ==
  LET d == TrimZeros(PadFrac(frac, FracDigits))
  IN IF d = <<>> THEN <<>> ELSE <<".">> \o d

\* The layout element -0700
FormatOffset(off) ==
  (IF off < 0 THEN <<"-">> \o TwoDigits(0 - off) ELSE <<"+">> \o TwoDigits(off)) \o <<"00">>

\* v.Format("2006-01-02 15:04:05.999999 -0700 UTC"): UTC is no layout
\* element, the letters are written as they stand whatever the offset is.
FormatTime(t) ==
  <<t.date, " ">> \o TwoDigits(t.hour) \o <<":00:00">> \o FormatFrac(t.frac)
    \o <<" ">> \o FormatOffset(t.off) \o <<" ", "UTC">>

\* ---------------------------------------------- exportTableToCSV, one cell
Export(val) ==
  IF val = GoNil THEN <<"NULL">>
  ELSE IF val.k = "bytes" THEN val.s
  ELSE IF val.k = "time" THEN FormatTime(val)
  ELSE IF val.k = "bool" THEN (IF val.b THEN <<"true">> ELSE <<"false">>)
  ELSE IntText(val.n)

\* ------------------------------------------------------------ time.Parse
\* The longest run of digits a text starts with.
RECURSIVE DigitRun(_)
DigitRun(s) ==
  IF s # <<>> /\ IsDigit(s[1]) THEN <<s[1]>> \o DigitRun(Tail(s)) ELSE <<>>

\* The fraction a run of digits after the point denotes; digits beyond the
\* precision kept are dropped.
FracValue(d) ==
  IF Len(d) >= FracDigits THEN DigitsValue(SubSeq(d, 1, FracDigits))
  ELSE DigitsValue(d) * Pow10(FracDigits - Len(d))

ParseFailed == [ok |-> FALSE]

\* The elements 2006-01-02, the separator, 15:04:05 and a fractional second.
\* Parse reads a fractional second after the seconds whether or not the
\* layout has one, and takes a missing one as zero.
ParseClock(s, sep) ==
  IF /\ Len(s) >= 5
     /\ s[1] \in Dates /\ s[2] = sep
     /\ IsTwoDigits(SubSeq(s, 3, 4)) /\ DigitsValue(SubSeq(s, 3, 4)) < 24
     /\ s[5] = ":00:00"
  THEN LET r == SubSeq(s, 6, Len(s))
           d == IF HasPrefix(r, ".") THEN DigitRun(Tail(r)) ELSE <<>>
       IN [ok |-> TRUE, date |-> s[1], hour |-> DigitsValue(SubSeq(s, 3, 4)),
           frac |-> IF d = <<>> THEN 0 ELSE FracValue(d),
           rest |-> IF d = <<>> THEN r ELSE SubSeq(r, Len(d) + 2, Len(r))]
  ELSE ParseFailed

\* The element -0700: a sign, two digits of hours, two of minutes.
IsOffset(s) ==
  /\ Len(s) = 4 /\ s[1] \in {"+", "-"}
  /\ IsTwoDigits(SubSeq(s, 2, 3)) /\ s[4] = "00"

OffsetValue(s) ==
  IF s[1] = "-" THEN 0 - DigitsValue(SubSeq(s, 2, 3)) ELSE DigitsValue(SubSeq(s, 2, 3))

\* Zone abbreviations the element MST reads.
ZoneNames == {"UTC", "CET", "MST"}

\* time.Parse("2006-01-02 15:04:05.999999 -0700 MST", value). When the
\* abbreviation reads UTC the result is built in the UTC location from the
\* wall clock as written, and the numeric offset is not applied; with any
\* other abbreviation the offset decides the instant.
ParseZoned(s) ==
  LET c == ParseClock(s, " ")
  IN IF ~c.ok THEN ParseFailed
     ELSE IF /\ Len(c.rest) = 7
             /\ c.rest[1] = " " /\ IsOffset(SubSeq(c.rest, 2, 5))
             /\ c.rest[6] = " " /\ c.rest[7] \in ZoneNames
     THEN [ok |-> TRUE,
           t |-> GoTime(c.date, c.hour, c.frac,
                        IF c.rest[7] = "UTC" THEN 0 ELSE OffsetValue(SubSeq(c.rest, 2, 5)))]
     ELSE ParseFailed

\* time.Parse(time.RFC3339Nano, value): 2006-01-02T15:04:05.999999999Z07:00
ParseRFC3339(s) ==
  LET c == ParseClock(s, "T")
  IN IF ~c.ok THEN ParseFailed
     ELSE IF c.rest = <<"Z">> THEN [ok |-> TRUE, t |-> GoTime(c.date, c.hour, c.frac, 0)]
     ELSE IF /\ Len(c.rest) = 5 /\ c.rest[1] \in {"+", "-"}
             /\ IsTwoDigits(SubSeq(c.rest, 2, 3)) /\ c.rest[4] = ":" /\ c.rest[5] = "00"
     THEN [ok |-> TRUE, t |-> GoTime(c.date, c.hour, c.frac, OffsetValue(SubSeq(c.rest, 1, 3) \o <<"00">>))]
     ELSE ParseFailed

\* time.Parse("2006-01-02 15:04:05", value)
ParseDateTime(s) ==
  LET c == ParseClock(s, " ")
  IN IF c.ok /\ c.rest = <<>> THEN [ok |-> TRUE, t |-> GoTime(c.date, c.hour, c.frac, 0)]
     ELSE ParseFailed

\* time.Parse("2006-01-02", value)
ParseDate(s) ==
  IF Len(s) = 1 /\ s[1] \in Dates THEN [ok |-> TRUE, t |-> GoTime(s[1], 0, 0, 0)]
  ELSE ParseFailed

\* ------------------------------------------------------------ fixSimpleJSON
\* The second pass of fixSimpleJSON over the text, from position i on, with
\* inQuotes as the loop has it on reaching i.
RECURSIVE QuoteNames(_, _, _)
QuoteNames(res, i, inQuotes) ==
  IF i > Len(res) THEN <<>>
  ELSE LET char == res[i]
           before == {j \in 1..(i - 1) : res[j] \notin {" ", "\t"}}
           j == IF before = {} THEN 0 ELSE CHOOSE m \in before : \A o \in before : o <= m
       IN IF char = "\"" THEN <<char>> \o QuoteNames(res, i + 1, ~inQuotes)
          ELSE IF char = ":" /\ ~inQuotes
          THEN (IF j >= 1 /\ res[j] \notin {"\"", "}", "]"} THEN <<"\"", ":">> ELSE <<char>>)
                 \o QuoteNames(res, i + 1, inQuotes)
          ELSE <<char>> \o QuoteNames(res, i + 1, inQuotes)

fixSimpleJSON(input) == QuoteNames(ReplaceAll(input, "'", "\""), 1, FALSE)

\* ------------------------------------------------------- parseArrayString
\* The elements of s between commas outside quotes, each trimmed; current is
\* the element being read, and a last element that is empty is dropped.
RECURSIVE ArrayElems(_, _, _)
ArrayElems(s, current, inQuotes) ==
  IF s = <<>> THEN (IF current # <<>> THEN <<TrimSpace(current)>> ELSE <<>>)
  ELSE IF s[1] = "\"" THEN ArrayElems(Tail(s), Append(current, s[1]), ~inQuotes)
  ELSE IF s[1] = "," /\ ~inQuotes THEN <<TrimSpace(current)>> \o ArrayElems(Tail(s), <<>>, inQuotes)
  ELSE ArrayElems(Tail(s), Append(current, s[1]), inQuotes)

parseArrayString(s) == ArrayElems(s, <<>>, FALSE)

\* strings.Join(elems, ",")
RECURSIVE Join(_)
Join(elems) ==
  IF elems = <<>> THEN <<>>
  ELSE IF Len(elems) = 1 THEN elems[1]
  ELSE elems[1] \o <<",">> \o Join(Tail(elems))

\* One element of a decoded JSON array as the conversion writes it: a string
\* between double quotes again, anything else by %v (a whole number by its
\* digits, null as <nil>).
PgElement(e) ==
  LET v == TrimSpace(e)
  IN IF v = <<"null">> THEN <<"<nil>">> ELSE v

\* The runs of r between its commas; cur is the run being read.
RECURSIVE SplitCommas(_, _)
SplitCommas(r, cur) ==
  IF r = <<>> THEN <<cur>>
  ELSE IF r[1] = "," THEN <<cur>> \o SplitCommas(Tail(r), <<>>)
  ELSE SplitCommas(Tail(r), Append(cur, r[1]))

\* The elements of a flat JSON array text (no nested array or object, no
\* comma inside a string).
JSONArrayElems(s) ==
  LET inner == SubSeq(TrimSpace(s), 2, Len(TrimSpace(s)) - 1)
  IN IF TrimSpace(inner) = <<>> THEN <<>> ELSE SplitCommas(inner, <<>>)

\* json.Unmarshal(text, &jsonArray) succeeds: the text is a JSON array.
IsJSONArray(s) == IsJSONValue(s) /\ HasPrefix(TrimSpace(s), "[")

\* ----------------------------------------------------------- column types
\* Declared types of columns, as ExtractSchema stores them in Column.Type.
ColTypes ==
  {"boolean", "timestamp without time zone", "timestamp with time zone", "date",
   "json", "jsonb", "ARRAY", "integer", "numeric", "text", "enum"}

\* strings.ToLower of a declared type
LowerType(columnType) == IF columnType = "ARRAY" THEN "array" ELSE columnType

\* strings.Contains(colType, sub) for the substrings the codec and the
\* generator look for
TypeContains(lowType, sub) ==
  sub \in (CASE lowType \in {"timestamp without time zone", "timestamp with time zone"} -> {"time", "timestamp"}
             [] lowType = "date" -> {"date"}
             [] lowType = "integer" -> {"int"}
             [] lowType = "bigint" -> {"int", "big"}
             [] lowType = "numeric" -> {"numeric"}
             [] lowType = "serial" -> {"serial"}
             [] lowType = "decimal" -> {"decimal"}
             [] lowType = "uuid" -> {"uuid"}
             [] lowType = "text" -> {"text"}
             [] lowType = "json" -> {"json"}
             [] lowType = "jsonb" -> {"json", "jsonb"}
             [] OTHER -> {})

\* strings.ToLower of a cell: the words of the boolean spellings in upper or
\* mixed case; every other token used here has no upper-case letter.
LowerToken(c) ==
  CASE c \in {"TRUE", "True"} -> "true"
    [] c \in {"FALSE", "False"} -> "false"
    [] c = "T" -> "t"
    [] c = "F" -> "f"
    [] c \in {"YES", "Yes"} -> "yes"
    [] c \in {"NO", "No"} -> "no"
    [] c = "Y" -> "y"
    [] c = "N" -> "n"
    [] OTHER -> c

ToLower(s) == [k \in 1..Len(s) |-> LowerToken(s[k])]

\* strconv.ParseInt(value, 10, 64) succeeds: an optional sign and digits.
IsInt(s) == AllDigits(IF HasPrefix(s, "-") \/ HasPrefix(s, "+") THEN Tail(s) ELSE s)

ParseInt(s) ==
  IF HasPrefix(s, "-") THEN 0 - DigitsValue(Tail(s))
  ELSE IF HasPrefix(s, "+") THEN DigitsValue(Tail(s))
  ELSE DigitsValue(s)

\* A float64, for the decimal texts used here (no exponent, few digits): the
\* whole part with its sign and the fraction digits without trailing zeros.
GoFloat(neg, whole, fracDigits) == [k |-> "float", neg |-> neg, whole |-> whole, frac |-> TrimZeros(fracDigits)]

\* strconv.ParseFloat(value, 64) succeeds: an optional sign, digits, and
\* optionally a point and digits.
IsFloat(s) ==
  LET u == IF HasPrefix(s, "-") \/ HasPrefix(s, "+") THEN Tail(s) ELSE s
      w == DigitRun(u)
      r == SubSeq(u, Len(w) + 1, Len(u))
  IN /\ w # <<>>
     /\ (r = <<>> \/ (HasPrefix(r, ".") /\ AllDigits(Tail(r))))

ParseFloat(s) ==
  LET u == IF HasPrefix(s, "-") \/ HasPrefix(s, "+") THEN Tail(s) ELSE s
      w == DigitRun(u)
      r == SubSeq(u, Len(w) + 1, Len(u))
  IN GoFloat(HasPrefix(s, "-") /\ (DigitsValue(w) # 0 \/ TrimZeros(IF r = <<>> THEN r ELSE Tail(r)) # <<>>),
             DigitsValue(w), IF r = <<>> THEN r ELSE Tail(r))

\* ------------------------------------------------------- processCSVValue
\* The json and jsonb branch.
ProcessJSON(value) ==
  LET fixedJSON == IF Contains(value, "'") /\ ~Contains(value, "\"")
                   THEN ReplaceAll(value, "'", "\"") ELSE value
      repaired == fixSimpleJSON(fixedJSON)
  IN IF IsJSONValue(value) THEN value
     ELSE IF IsJSONValue(fixedJSON) THEN fixedJSON
     ELSE IF IsJSONValue(repaired) THEN repaired
     ELSE value

\* The array branch.
ProcessArray(value) ==
  IF \/ HasPrefix(value, "[") /\ HasSuffix(value, "]")
     \/ HasPrefix(value, "{") /\ HasSuffix(value, "}")
  THEN IF HasPrefix(value, "{") THEN value
       ELSE LET fixedArray == IF Contains(value, "'") /\ ~Contains(value, "\"")
                              THEN ReplaceAll(value, "'", "\"") ELSE value
                elems == JSONArrayElems(fixedArray)
            IN IF IsJSONArray(fixedArray)
               THEN <<"{">> \o Join([k \in 1..Len(elems) |-> PgElement(elems[k])]) \o <<"}">>
               ELSE <<"{">> \o Join(parseArrayString(SubSeq(value, 2, Len(value) - 1))) \o <<"}">>
  ELSE value

\* The layouts tried for a time or date column, in order.
ProcessTime(value) ==
  IF Contains(value, "UTC") /\ ParseZoned(value).ok THEN ParseZoned(value)
  ELSE IF ParseRFC3339(value).ok THEN ParseRFC3339(value)
  ELSE IF ParseDateTime(value).ok THEN ParseDateTime(value)
  ELSE ParseDate(value)

\* What the branches after the time branch make of the cell.
ProcessScalar(value, lowType) ==
  LET lower == ToLower(value)
  IN IF lowType \in {"boolean", "bool"} /\ lower \in {<<"true">>, <<"t">>, <<"yes">>, <<"y">>, <<"1">>}
     THEN GoBool(TRUE)
     ELSE IF lowType \in {"boolean", "bool"} /\ lower \in {<<"false">>, <<"f">>, <<"no">>, <<"n">>, <<"0">>}
     THEN GoBool(FALSE)
     ELSE IF (TypeContains(lowType, "int") \/ TypeContains(lowType, "serial")
                \/ TypeContains(lowType, "bigserial")) /\ IsInt(value)
     THEN GoInt(ParseInt(value))
     ELSE IF (TypeContains(lowType, "float") \/ TypeContains(lowType, "numeric")
                \/ TypeContains(lowType, "decimal")) /\ IsFloat(value)
     THEN ParseFloat(value)
     ELSE GoString(value)

processCSVValue(value, columnType) ==
  LET lowType == LowerType(columnType)
  IN IF value \in {<<>>, <<"NULL">>, <<"null">>} THEN GoNil
     ELSE IF lowType \in {"json", "jsonb"} THEN GoString(ProcessJSON(value))
     ELSE IF lowType = "array" THEN GoString(ProcessArray(value))
     ELSE IF (TypeContains(lowType, "time") \/ TypeContains(lowType, "date")) /\ ProcessTime(value).ok
     THEN ProcessTime(value).t
     ELSE ProcessScalar(value, lowType)

\* ------------------------------------------------- the cells of the codec
\* Hours of the day the timestamps fall on.
Hours == {9, 12}

\* Offsets of the session's time zone, in hours east of UTC: a server that
\* runs in UTC and one that does not.
ZoneOffsets == {0, 2}

Fractions == 0..(Pow10(FracDigits) - 1)

Quote == "\""

\* JSON documents as a json or jsonb column holds them.
StoredJSON ==
  { <<"{", Quote, "a", Quote, ":", "1", "}">>,
    <<"{", Quote, "a", Quote, ":", " ", "{", Quote, "b", Quote, ":", " ", "[", "1", ",", " ", "2", "]", "}", "}">>,
    <<"{", Quote, "a", Quote, ":", Quote, "it", "'", "s", Quote, ",", Quote, "n", Quote, ":", "null", "}">>,
    <<"[", "1", ",", "2", "]">>,
    <<Quote, "a", Quote>>,
    <<"true">> }

\* Arrays in the form the server writes them.
StoredArrays ==
  { <<"{", "1", ",", "2", ",", "3", "}">>,
    <<"{", Quote, "a", " ", "b", Quote, ",", "c", "}">>,
    <<"{", "}">> }

\* Members of an enumerated type.
EnumMembers == {<<"active">>, <<"inactive">>, <<"on", " ", "hold">>}

\* What the driver scans from a column of the type, NULL apart.
Scanned(type) ==
  CASE type = "boolean" -> {GoBool(b) : b \in BOOLEAN}
    [] type = "timestamp without time zone" ->
         {GoTime(d, h, f, 0) : d \in Dates, h \in Hours, f \in Fractions}
    [] type = "timestamp with time zone" ->
         UNION {{GoTime(d, h, f, o) : d \in Dates, h \in Hours, f \in Fractions} : o \in ZoneOffsets}
    [] type = "date" -> {GoTime(d, 0, 0, 0) : d \in Dates}
    [] type \in {"json", "jsonb"} -> {GoBytes(t) : t \in StoredJSON}
    [] type = "ARRAY" -> {GoBytes(t) : t \in StoredArrays}
    [] type = "integer" -> {GoInt(n) : n \in (0 - MaxInt)..MaxInt}
    [] type = "numeric" -> {GoBytes(<<"1", "2", ".", "5", "0">>), GoBytes(<<"-", "7">>)}
    [] type = "enum" -> {GoBytes(t) : t \in EnumMembers}
    [] OTHER -> {GoBytes(<<"a">>), GoBytes(<<"a", " ", "b">>)}

\* The name of a JSON member as a hand-written file may spell it.
NameSpellings == {<<"a">>, <<"'", "a", "'">>, <<Quote, "a", Quote>>}

\* What stands between the name and the colon.
NameGaps == {<<>>, <<" ">>, <<"\n">>}

\* The value of a JSON member as a hand-written file may spell it.
ValueSpellings ==
  { <<"1">>, <<"b">>, <<"'", "b", "'">>, <<Quote, "b", Quote>>, <<"true">>,
    <<"{", Quote, "c", Quote, ":", "2", "}">>, <<"{", "'", "c", "'", ":", "2", "}">>,
    <<"[", "1", ",", "2", "]">> }

\* Cells of a row file that no export wrote, for a column of the type.
Written(type) ==
  CASE type \in {"json", "jsonb"} ->
         {<<"{">> \o n \o g \o <<":">> \o v \o <<"}">> :
            n \in NameSpellings, g \in NameGaps, v \in ValueSpellings}
         \cup {<<"[", "'", "x", "'", "]">>, <<"'", "x", "'">>, <<"x">>, <<"{">>, <<"null">>}
    [] type = "ARRAY" ->
         {<<"[", "1", ",", " ", "2", "]">>, <<"[", "'", "x", "'", ",", "null", "]">>,
          <<"[", "1", ",", " ", "x", ",", "]">>, <<"1", ",", "2">>}
    [] type = "boolean" ->
         {<<"TRUE">>, <<"t">>, <<"Yes">>, <<"1">>, <<"False">>, <<"n">>, <<"0">>, <<"maybe">>}
    [] type \in {"timestamp without time zone", "timestamp with time zone", "date"} ->
         {<<"2024-01-01">>, <<"2024-01-01", " ", "0", "9", ":00:00">>,
          <<"2024-01-01", "T", "0", "9", ":00:00", ".", "5", "Z">>,
          <<"2024-01-01", "T", "0", "9", ":00:00", "+", "0", "2", ":", "00">>,
          <<"2024-01-01", " ", "1", "2", ":00:00", " ", "+", "0", "2", "00", " ", "CET">>,
          <<"yesterday">>}
    [] type = "integer" -> {<<"+", "5">>, <<"0", "0", "7">>, <<"1", ".", "5">>, <<"x">>}
    [] type = "numeric" -> {<<"1", ".", "5">>, <<"-", "0", ".", "5", "0">>, <<"x">>}
    [] OTHER -> {<<>>, <<"null">>, <<"a">>}

restoreVars ==
  <<engine, connected, schema, dbTables, dbNoCol, dbEnums, dbFKs, dbRows, created,
    sortedTables, pc, ti, ci, defers, tx, txRows, files, stmts, warned, result, auxVars>>

\* One cell of one column: either scanned from the source database and on
\* its way into a row file, or a field of a row file somebody wrote.
CodecInit ==
  /\ engine = "postgres"
  /\ connected = TRUE
  /\ schema = [tables |-> <<>>, enums |-> <<>>]
  /\ dbTables = {} /\ dbNoCol = {} /\ dbEnums = {} /\ dbFKs = {}
  /\ dbRows = NoRows
  /\ created = {}
  /\ sortedTables = <<>>
  /\ pc = "codec"
  /\ ti = 1 /\ ci = 1
  /\ defers = <<>>
  /\ tx = "none" /\ txRows = <<>>
  /\ files = NoFiles
  /\ stmts = <<>>
  /\ warned = {}
  /\ result = "running"
  /\ AuxIdle
  /\ GenIdle
  /\ SchemaIdle
  /\ colType \in ColTypes
  /\ imported = NoValue
  /\ \/ /\ cpc = "native"
        /\ native \in Scanned(colType) \cup {GoNil}
        /\ text = <<>>
     \/ /\ cpc = "text"
        /\ native = NoValue
        /\ text \in Written(colType)

\* exportTableToCSV: the cell of the row that is written
CodecExport ==
  /\ pc = "codec" /\ cpc = "native"
  /\ text' = Export(native)
  /\ cpc' = "text"
  /\ UNCHANGED <<restoreVars, genVars, schemaVars, colType, native, imported>>

\* importCSV: values[i] = p.processCSVValue(v, columnTypeMap[header[i]])
CodecImport ==
  /\ pc = "codec" /\ cpc = "text"
  /\ imported' = processCSVValue(text, colType)
  /\ cpc' = "imported"
  /\ UNCHANGED <<restoreVars, genVars, schemaVars, colType, native, text>>

CodecNext == CodecExport \/ CodecImport

SpecCodec == CodecInit /\ [][CodecNext]_vars

\* ------------------------------------------------------- round trip (C11)
\* The imported value is the scanned value again: NULL is nil, a boolean the
\* same boolean, a time the same instant, and a value the driver handed over
\* as text (JSON, array, enum member) the same text.
SameValue(scanned, got) ==
  CASE scanned = GoNil -> got = GoNil
    [] scanned.k = "time" -> SameInstant(scanned, got)
    [] scanned.k = "bytes" -> got = GoString(scanned.s)
    [] OTHER -> got = scanned

\* The column types the round-trip law names values of.
RoundTripTypes ==
  {"boolean", "timestamp without time zone", "timestamp with time zone", "json", "jsonb", "ARRAY", "enum"}

\* C11: importing the text that export wrote for a value yields that value
\* again, for NULL, true and false, a timestamp with a fractional second, a
\* nested JSON object, an array of several elements and an enum member.
C11_RoundTrip ==
  (cpc = "imported" /\ native # NoValue /\ colType \in RoundTripTypes) => SameValue(native, imported)

\* ------------------------------------------------- the JSON ladder (C12)
\* The first text of a list that is a JSON value, and orig when none is.
RECURSIVE FirstJSON(_, _)
FirstJSON(candidates, orig) ==
  IF candidates = <<>> THEN orig
  ELSE IF IsJSONValue(candidates[1]) THEN candidates[1]
  ELSE FirstJSON(Tail(candidates), orig)

\* The ladder as stated: the input, the input with every single quote
\* replaced by a double quote, the output of the quoting repair.
StatedLadder(value) ==
  FirstJSON(<<value, ReplaceAll(value, "'", "\""), fixSimpleJSON(value)>>, value)

\* C12: for a JSON or JSONB column the imported value is the first of the
\* input, the input with single quotes replaced by double quotes, and the
\* output of the quoting repair that parses as JSON, and the unmodified input
\* when none parses; the cell is never rejected.
C12_JSONLadder ==
  (cpc = "imported" /\ colType \in {"json", "jsonb"} /\ text \notin {<<>>, <<"NULL">>, <<"null">>})
    => imported = GoString(StatedLadder(text))

\* ------------------------------------------- enum-domain failures (C13)
\* The table whose row file the import loop is reading.
LoadingTable == IF engine = "postgres" THEN CurTable.name ELSE CurSorted.name

\* The row file being read holds a row the database refuses because a value
\* lies outside its enum's domain, and no row of another defect.
ReadEnumFailure ==
  /\ pc = "rows" /\ result = "running"
  /\ \E k \in 1..Len(files[LoadingTable].rows) : files[LoadingTable].rows[k] = "enum"
  /\ \A k \in 1..Len(files[LoadingTable].rows) : files[LoadingTable].rows[k] \in {"ok", "enum"}

\* The import of the table ends and the restore goes on.
LoadGoesOn == (PgImportFinish \/ MyImportFinish) /\ result' = "running"

\* C13: a row whose insert fails because a value lies outside the enum's
\* domain is skipped; the load of its table can still be completed and the
\* restore go on.
C13_EnumFailureSkipsRow == ReadEnumFailure => ENABLED LoadGoesOn


\* ========================================================================
\* Part 5: the synthetic-data generator (database/faker.go)
\* ========================================================================

\* Rows generated for each table, at most.
MaxGenRows == 2
\* maxAttempts of generateUniqueValue (1000 in the source).
MaxAttempts == 2
\* The largest number randomInt(1, 1000000) returns (1000000 in the source).
MaxRandom == 2

\* The generation runs of one process.
Runs == {1, 2}

\* What faker.Word() can return.
Words == {"lorem", "ipsum"}

\* A column of the schema; foreignKey is empty (nil) or holds one reference.
Column(name, type, default, nullable, isPrimary, isUnique, foreignKey) ==
  [name |-> name, type |-> type, default |-> default, nullable |-> nullable,
   isPrimary |-> isPrimary, isUnique |-> isUnique, foreignKey |-> foreignKey]

ForeignKey(table, column) == [table |-> table, column |-> column]

\* fmt.Sprintf("%s.%s", table, column)
PoolKey(table, column) == <<table, ".", column>>

\* fmt.Sprintf("%s.csv", table.Name)
FileName(table) == <<table, ".csv">>

\* m[key] of a Go map: the zero value when the key is absent.
MapGet(m, key, zero) == IF key \in DOMAIN m THEN m[key] ELSE zero

\* m[key] = value
MapPut(m, key, value) == [k \in DOMAIN m \cup {key} |-> IF k = key THEN value ELSE m[k]]

\* faker.UUIDHyphenated(): an identifier no earlier call returned.
UUID(n) == <<"uuid-">> \o NatText(n)

\* strings.Contains(strings.ToLower(col.Name), sub) for the column names used.
NameContains(name, sub) == name = "email" /\ sub = "email"

\* ------------------------------------------------ generatePrimaryKeyValue
\* The outcomes of one call: the value, and the counters and the number of
\* identifiers issued after it.
generatePrimaryKeyValue(col, tableName, counters, uuids) ==
  LET dataType == LowerType(col.type)
  IN IF TypeContains(dataType, "uuid")
     THEN {[v |-> UUID(uuids + 1), counters |-> counters, issued |-> uuids + 1]}
     ELSE IF TypeContains(dataType, "serial") \/ TypeContains(dataType, "int")
     THEN {[v |-> NatText(MapGet(counters, tableName, 0) + 1),
            counters |-> MapPut(counters, tableName, MapGet(counters, tableName, 0) + 1),
            issued |-> uuids]}
     ELSE {[v |-> <<w>>, counters |-> counters, issued |-> uuids] : w \in Words}

\* values[i] = generatePrimaryKeyValue(col, table.Name) for i = 0 .. n-1
RECURSIVE PoolOf(_, _, _, _, _)
PoolOf(col, tableName, n, counters, uuids) ==
  IF n = 0 THEN {[values |-> <<>>, counters |-> counters, issued |-> uuids]}
  ELSE UNION {{[values |-> Append(p.values, r.v), counters |-> r.counters, issued |-> r.issued] :
                 r \in generatePrimaryKeyValue(col, tableName, p.counters, p.issued)} :
              p \in PoolOf(col, tableName, n - 1, counters, uuids)}

\* The first pass from column j of table t on.
RECURSIVE FirstPass(_, _, _, _, _)
FirstPass(tables, t, j, n, st) ==
  IF t > Len(tables) THEN {st}
  ELSE IF j > Len(tables[t].columns) THEN FirstPass(tables, t + 1, 1, n, st)
  ELSE LET col == tables[t].columns[j]
       IN IF col.isPrimary
          THEN UNION {FirstPass(tables, t, j + 1, n,
                                [pools |-> MapPut(st.pools, PoolKey(tables[t].name, col.name), p.values),
                                 counters |-> p.counters, issued |-> p.issued]) :
                      p \in PoolOf(col, tables[t].name, n, st.counters, st.issued)}
          ELSE FirstPass(tables, t, j + 1, n, st)

\* ------------------------------------------------------ generateFakeValue
\* The outcomes of one call: the value and the number of identifiers issued.
generateFakeValue(col, rowIndex, uuids) ==
  LET type == LowerType(col.type)
      byType ==
        CASE type = "uuid" -> {[v |-> UUID(uuids + 1), issued |-> uuids + 1]}
          [] type \in {"text", "varchar", "char"} ->
               IF NameContains(col.name, "email")
               THEN {[v |-> <<"user">> \o NatText(rowIndex) \o <<"@example.com">>, issued |-> uuids]}
               ELSE {[v |-> <<w>>, issued |-> uuids] : w \in Words}
          [] type \in {"int", "integer", "bigint", "smallint"} ->
               {[v |-> NatText(n), issued |-> uuids] : n \in 1..MaxRandom}
          [] type \in {"boolean", "bool"} ->
               {[v |-> <<b>>, issued |-> uuids] : b \in {"true", "false"}}
          [] OTHER -> {[v |-> <<"value_">> \o NatText(rowIndex), issued |-> uuids]}
  IN IF col.nullable THEN {[v |-> <<"NULL">>, issued |-> uuids]} \cup byType ELSE byType

\* --------------------------------------------- generateUniqueValueByType
generateUniqueValueByType(col, rowIndex, attempt, uuids) ==
  LET dataType == LowerType(col.type)
  IN IF TypeContains(dataType, "serial") \/ col.default = "nextval"
     THEN {[v |-> NatText(rowIndex + 1 + attempt), issued |-> uuids]}
     ELSE IF TypeContains(dataType, "uuid")
     THEN {[v |-> UUID(uuids + 1), issued |-> uuids + 1]}
     ELSE IF TypeContains(dataType, "int")
     THEN IF TypeContains(dataType, "small") THEN {[v |-> NatText(rowIndex + 1 + attempt), issued |-> uuids]}
          ELSE IF TypeContains(dataType, "big")
          THEN {[v |-> NatText((rowIndex + 1) * 1000 + attempt), issued |-> uuids]}
          ELSE {[v |-> NatText(rowIndex + 1 + attempt), issued |-> uuids]}
     ELSE IF TypeContains(dataType, "varchar") \/ TypeContains(dataType, "text")
     THEN IF NameContains(col.name, "email")
          THEN {[v |-> <<"user">> \o NatText(rowIndex + 1) \o <<"_">> \o NatText(attempt) \o <<"@example.com">>,
                 issued |-> uuids]}
          ELSE {[v |-> <<w, "_">> \o NatText(rowIndex + 1) \o <<"_">> \o NatText(attempt), issued |-> uuids] :
                  w \in Words}
     ELSE {[v |-> <<"unique_">> \o NatText(rowIndex + 1) \o <<"_">> \o NatText(attempt), issued |-> uuids]}

\* ---------------------------------------------------- generateUniqueValue
\* The loop from the given attempt on; sets is uniqueValueSets, last the
\* value of the attempt before. The outcomes: the value, the sets and the
\* number of identifiers issued after the call.
RECURSIVE UniqueFrom(_, _, _, _, _, _)
UniqueFrom(col, rowIndex, attempt, sets, uuids, last) ==
  IF attempt >= MaxAttempts
  THEN LET value == last \o <<"_">> \o NatText(rowIndex)
       IN {[v |-> value, sets |-> MapPut(sets, col.name, MapGet(sets, col.name, {}) \cup {value}),
            issued |-> uuids]}
  ELSE UNION {IF r.v \notin MapGet(sets, col.name, {})
              THEN {[v |-> r.v, sets |-> MapPut(sets, col.name, MapGet(sets, col.name, {}) \cup {r.v}),
                     issued |-> r.issued]}
              ELSE UniqueFrom(col, rowIndex, attempt + 1, sets, r.issued, r.v) :
              r \in generateUniqueValueByType(col, rowIndex, attempt, uuids)}

generateUniqueValue(col, rowIndex, sets, uuids) == UniqueFrom(col, rowIndex, 0, sets, uuids, <<>>)

\* ------------------------------------------------------ generateTableData
\* row[j] for the column: from the pool of the referenced column when the
\* column is a foreign key and the pool is not empty, and generated
\* otherwise, through generateUniqueValue for a primary or unique column.
CellValues(col, i, pools, sets, uuids) ==
  LET values == IF col.foreignKey = <<>> THEN <<>>
                ELSE MapGet(pools, PoolKey(col.foreignKey[1].table, col.foreignKey[1].column), <<>>)
  IN IF col.foreignKey # <<>> /\ Len(values) > 0
     THEN {[v |-> values[(i % Len(values)) + 1], sets |-> sets, issued |-> uuids]}
     ELSE UNION {IF col.isPrimary \/ col.isUnique
                 THEN generateUniqueValue(col, i, sets, f.issued)
                 ELSE {[v |-> f.v, sets |-> sets, issued |-> f.issued]} :
                 f \in generateFakeValue(col, i, uuids)}

\* The rows loop from row i, column j on; st holds the rows written, the
\* row being filled, uniqueValueSets and the number of identifiers issued.
RECURSIVE FillRows(_, _, _, _, _, _)
FillRows(columns, i, j, n, pools, st) ==
  IF i >= n THEN {st}
  ELSE IF j > Len(columns)
  THEN FillRows(columns, i + 1, 1, n, pools,
                [st EXCEPT !.rows = Append(@, st.row), !.row = <<>>])
  ELSE UNION {FillRows(columns, i, j + 1, n, pools,
                       [rows |-> st.rows, row |-> Append(st.row, c.v), sets |-> c.sets, issued |-> c.issued]) :
              c \in CellValues(columns[j], i, pools, st.sets, st.issued)}

\* A header that lists the columns last to first.
HeadersReversed(columns) == [j \in 1..Len(columns) |-> columns[Len(columns) + 1 - j].name]

\* headers[i] = col.Name
Headers(columns) == [j \in 1..Len(columns) |-> columns[j].name]

\* --------------------------------------------------- the schemas generated
\* Type and default of a key column: a serial, a bigint, a uuid, a text key.
KeyKinds == {<<"integer", "nextval">>, <<"bigint", "">>, <<"uuid", "">>, <<"text", "">>}

\* authors(id, [email]) and posts(id, ref, body): authors.id and posts.id are
\* primary keys, authors.email is unique, posts.ref references authors.id or
\* authors.email and may be unique, posts.body is a nullable column of a type
\* generateFakeValue has no case for.
GenSchemas ==
  UNION {UNION {
    { << [name |-> "authors",
          columns |-> <<Column("id", uk[1], uk[2], FALSE, TRUE, FALSE, <<>>)>>
                        \o (IF withEmail
                            THEN <<Column("email", "text", "", FALSE, FALSE, TRUE, <<>>)>> ELSE <<>>)],
         [name |-> "posts",
          columns |-> << Column("id", pk[1], pk[2], FALSE, TRUE, FALSE, <<>>),
                         Column("ref", IF target = "id" THEN uk[1] ELSE "text", "", FALSE, FALSE, refUnique,
                                <<ForeignKey("authors", target)>>),
                         Column("body", "citext", "", TRUE, FALSE, FALSE, <<>>) >>] >> :
      target \in (IF withEmail THEN {"id", "email"} ELSE {"id"}), refUnique \in BOOLEAN } :
    uk \in KeyKinds, pk \in KeyKinds \ {<<"text", "">>}} : withEmail \in BOOLEAN}

\* The variables of the restore and of the codec, at rest.
GenOthersIdle ==
  /\ engine = "postgres"
  /\ connected = TRUE
  /\ schema = [tables |-> <<>>, enums |-> <<>>]
  /\ dbTables = {} /\ dbNoCol = {} /\ dbEnums = {} /\ dbFKs = {}
  /\ dbRows = NoRows
  /\ created = {}
  /\ sortedTables = <<>>
  /\ pc = "generate"
  /\ ti = 1 /\ ci = 1
  /\ defers = <<>>
  /\ tx = "none" /\ txRows = <<>>
  /\ files = NoFiles
  /\ stmts = <<>>
  /\ warned = {}
  /\ result = "running"
  /\ AuxIdle
  /\ CodecIdle
  /\ SchemaIdle

\* The process after package initialisation (faker.go 18-30), about to call
\* GenerateFakeData for the first time.
GenInit ==
  /\ GenOthersIdle
  /\ gpc = "start" /\ run = 1
  /\ genSchema \in GenSchemas
  /\ rowCount \in 1..MaxGenRows
  /\ tj = 1
  /\ generatedValues = EmptyMap /\ idCounters = EmptyMap /\ uniqueValueSets = EmptyMap
  /\ issued = 0
  /\ outFiles = EmptyMap
  /\ firstRun = EmptyMap

\* A start of the run that resets the pools and the uniqueness sets and
\* leaves the id counters as the run before left them.
GenResetKeepingCounters ==
  /\ pc = "generate" /\ gpc = "start"
  /\ \/ /\ gpc' = "failed"
        /\ UNCHANGED <<generatedValues, idCounters, uniqueValueSets>>
     \/ /\ gpc' = "pools"
        /\ generatedValues' = EmptyMap
        /\ uniqueValueSets' = EmptyMap
        /\ UNCHANGED idCounters
  /\ UNCHANGED <<restoreVars, codecVars, schemaVars, run, genSchema, rowCount, tj, issued, outFiles, firstRun>>

\* GenerateFakeData: ExtractSchema, which may fail, and the reset of the
\* shared maps.
GenReset ==
  /\ pc = "generate" /\ gpc = "start"
  /\ \/ /\ gpc' = "failed"
        /\ UNCHANGED <<generatedValues, idCounters, uniqueValueSets>>
     \/ /\ gpc' = "pools"
        /\ generatedValues' = EmptyMap
        /\ idCounters' = EmptyMap
        /\ uniqueValueSets' = EmptyMap
  /\ UNCHANGED <<restoreVars, codecVars, schemaVars, run, genSchema, rowCount, tj, issued, outFiles, firstRun>>

\* GenerateFakeData: the first pass, the pools of the primary-key columns.
GenPools ==
  /\ pc = "generate" /\ gpc = "pools"
  /\ \E st \in FirstPass(genSchema, 1, 1, rowCount,
                         [pools |-> generatedValues, counters |-> idCounters, issued |-> issued]) :
       /\ generatedValues' = st.pools
       /\ idCounters' = st.counters
       /\ issued' = st.issued
  /\ gpc' = "tables"
  /\ tj' = 1
  /\ UNCHANGED <<restoreVars, codecVars, schemaVars, run, genSchema, rowCount, uniqueValueSets, outFiles, firstRun>>

\* generateTableData(table, outputDir, rowCount) for the next table of the
\* second pass: the file is created, which may fail, and the header and the
\* rows are written.
GenTableData ==
  /\ pc = "generate" /\ gpc = "tables" /\ tj <= Len(genSchema)
  /\ \/ /\ gpc' = "failed"
        /\ UNCHANGED <<tj, uniqueValueSets, issued, outFiles>>
     \/ /\ \E st \in FillRows(genSchema[tj].columns, 0, 1, rowCount, generatedValues,
                              [rows |-> <<>>, row |-> <<>>, sets |-> uniqueValueSets, issued |-> issued]) :
             /\ outFiles' = MapPut(outFiles, FileName(genSchema[tj].name),
                                   [header |-> Headers(genSchema[tj].columns), rows |-> st.rows])
             /\ uniqueValueSets' = st.sets
             /\ issued' = st.issued
        /\ tj' = tj + 1
        /\ UNCHANGED gpc
  /\ UNCHANGED <<restoreVars, codecVars, schemaVars, run, genSchema, rowCount, generatedValues, idCounters, firstRun>>

\* GenerateFakeData: return nil
GenReturn ==
  /\ pc = "generate" /\ gpc = "tables" /\ tj > Len(genSchema)
  /\ gpc' = "done"
  /\ UNCHANGED <<restoreVars, codecVars, schemaVars, run, genSchema, rowCount, tj, generatedValues, idCounters,
                 uniqueValueSets, issued, outFiles, firstRun>>

\* The primary-key columns of integer type, as pairs of table and column index.
IntegerKeys ==
  {tc \in UNION {{<<t, j>> : j \in 1..Len(genSchema[t].columns)} : t \in 1..Len(genSchema)} :
     /\ genSchema[tc[1]].columns[tc[2]].isPrimary
     /\ TypeContains(LowerType(genSchema[tc[1]].columns[tc[2]].type), "int")}

\* The values of column j in the rows of a file.
ColumnValues(file, j) == [i \in 1..Len(file.rows) |-> file.rows[i][j]]

\* What a finished run leaves to compare the next run with: the sizes of
\* the pools, and the integer keys in the pools and in the row files.
RunSummary ==
  [sizes |-> [k \in DOMAIN generatedValues |-> Len(generatedValues[k])],
   pools |-> [tc \in IntegerKeys |->
                generatedValues[PoolKey(genSchema[tc[1]].name, genSchema[tc[1]].columns[tc[2]].name)]],
   written |-> [tc \in IntegerKeys |-> ColumnValues(outFiles[FileName(genSchema[tc[1]].name)], tc[2])]]

\* The same process calls GenerateFakeData again, for the same schema and
\* row count, with an empty output directory.
GenAgain ==
  /\ pc = "generate" /\ gpc = "done" /\ run + 1 \in Runs
  /\ run' = run + 1
  /\ gpc' = "start"
  /\ firstRun' = IF run = 1 THEN RunSummary ELSE firstRun
  /\ outFiles' = EmptyMap
  /\ UNCHANGED <<restoreVars, codecVars, schemaVars, genSchema, rowCount, tj, generatedValues, idCounters,
                 uniqueValueSets, issued>>

GenNext == GenReset \/ GenPools \/ GenTableData \/ GenReturn \/ GenAgain

SpecGen == GenInit /\ [][GenNext]_vars

\* ------------------------------------------------ the generator's claims
\* The tables whose row file the run has written.
WrittenTables == {t \in 1..Len(genSchema) : FileName(genSchema[t].name) \in DOMAIN outFiles}

\* The row file of table t.
RowFile(t) == outFiles[FileName(genSchema[t].name)]

\* The index of the table of that name, and of the column of that name in it.
TableIndex(name) == CHOOSE t \in 1..Len(genSchema) : genSchema[t].name = name

ColumnIndex(t, name) == CHOOSE j \in 1..Len(genSchema[t].columns) : genSchema[t].columns[j].name = name

\* The foreign-key columns of table t, by index.
ForeignKeyColumns(t) == {j \in 1..Len(genSchema[t].columns) : genSchema[t].columns[j].foreignKey # <<>>}

\* The pool of the column a foreign key references.
ReferencedPool(fk) == MapGet(generatedValues, PoolKey(fk.table, fk.column), <<>>)

\* C14: in every generated row file the values of a column flagged primary
\* or unique are pairwise distinct, also when the column is a foreign key
\* served from a pool and when the key is a word.
C14_KeyValuesDistinct ==
  \A t \in WrittenTables : \A j \in 1..Len(genSchema[t].columns) :
    (genSchema[t].columns[j].isPrimary \/ genSchema[t].columns[j].isUnique) =>
      \A a, b \in 1..Len(RowFile(t).rows) :
        a # b => RowFile(t).rows[a][j] # RowFile(t).rows[b][j]

\* C15: every value written in a foreign-key column is the value of the
\* referenced column's pool at the row index modulo the pool's size, never
\* a freshly generated value.
C15_ForeignKeyFromPool ==
  \A t \in WrittenTables : \A j \in ForeignKeyColumns(t) :
    LET pool == ReferencedPool(genSchema[t].columns[j].foreignKey[1])
    IN /\ Len(pool) > 0
       /\ \A i \in 1..Len(RowFile(t).rows) : RowFile(t).rows[i][j] = pool[((i - 1) % Len(pool)) + 1]

\* C16: after a run every foreign-key value written in a row file is a
\* value written in the referenced column of the referenced table's file.
C16_ReferentiallyClosed ==
  gpc = "done" =>
    \A t \in WrittenTables : \A j \in ForeignKeyColumns(t) :
      LET fk == genSchema[t].columns[j].foreignKey[1]
          rt == TableIndex(fk.table)
      IN \A i \in 1..Len(RowFile(t).rows) :
           RowFile(t).rows[i][j] \in Range(ColumnValues(RowFile(rt), ColumnIndex(rt, fk.column)))

\* C19: the pools, the id counters and the uniqueness sets are reset at the
\* start of every run: the first pass starts from empty maps, and a second
\* run over the same schema and row count ends with pools of the same sizes
\* and the same integer keys, in the pools and in the row files, as the first.
C19_StateResetEveryRun ==
  /\ gpc = "pools" =>
       generatedValues = EmptyMap /\ idCounters = EmptyMap /\ uniqueValueSets = EmptyMap
  /\ (gpc = "done" /\ run > 1) => RunSummary = firstRun

\* C19 witness: a second run has ended for a schema with integer keys whose
\* first run left counters and uniqueness sets behind.
C19_Witness ==
  /\ gpc = "done" /\ run = 2 /\ rowCount = MaxGenRows
  /\ Cardinality(IntegerKeys) = 2
  /\ \A tc \in IntegerKeys : Len(firstRun.pools[tc]) = rowCount

\* C20: a run writes for every table of the schema a row file named after
\* the table whose header is the column names in schema order, followed by
\* exactly rowCount rows of one field per column.
C20_RowFilesComplete ==
  gpc = "done" =>
    \A t \in 1..Len(genSchema) :
      /\ FileName(genSchema[t].name) \in DOMAIN outFiles
      /\ RowFile(t).header = [j \in 1..Len(genSchema[t].columns) |-> genSchema[t].columns[j].name]
      /\ Len(RowFile(t).rows) = rowCount
      /\ \A i \in 1..Len(RowFile(t).rows) : Len(RowFile(t).rows[i]) = Len(genSchema[t].columns)

\* C20 witness: a run has ended that wrote several rows for a table of two
\* columns and a table of three.
C20_Witness ==
  /\ gpc = "done" /\ rowCount = MaxGenRows
  /\ Len(genSchema) = 2
  /\ Len(RowFile(1).header) = 2 /\ Len(RowFile(2).header) = 3
  /\ Len(RowFile(2).rows) = MaxGenRows


\* ========================================================================
\* Part 6: introspection of MySQL enum columns (MySQLManager.GetSchema)
\* ========================================================================

\* Members of an enum column's declaration, at most.
MaxEnumValues == 3

\* The restore, the codec and the generator at rest while `position` runs.
OthersAtRest(position) ==
  /\ engine = "mysql"
  /\ connected = TRUE
  /\ schema = [tables |-> <<>>, enums |-> <<>>]
  /\ dbTables = {} /\ dbNoCol = {} /\ dbEnums = {} /\ dbFKs = {}
  /\ dbRows = NoRows
  /\ created = {}
  /\ sortedTables = <<>>
  /\ pc = position
  /\ ti = 1 /\ ci = 1
  /\ defers = <<>>
  /\ tx = "none" /\ txRows = <<>>
  /\ files = NoFiles
  /\ stmts = <<>>
  /\ warned = {}
  /\ result = "running"
  /\ AuxIdle
  /\ CodecIdle
  /\ GenIdle

\* Members an enum column can be declared with: plain words, a member with
\* an apostrophe, a member with a comma, the empty string.
MemberTexts ==
  {<<"active">>, <<"inactive">>, <<"pending">>, <<"it", "'", "s">>, <<"a", ",", "b">>, <<>>}

\* The declarations: lists of distinct members.
Declarations ==
  {d \in UNION {[1..n -> MemberTexts] : n \in 1..MaxEnumValues} :
     \A a, b \in 1..Len(d) : a # b => d[a] # d[b]}

\* A member as column_type shows it: between apostrophes, with every
\* apostrophe of the member doubled.
RECURSIVE DoubleQuotes(_)
DoubleQuotes(s) ==
  IF s = <<>> THEN <<>>
  ELSE (IF s[1] = "'" THEN <<"'", "'">> ELSE <<s[1]>>) \o DoubleQuotes(Tail(s))

QuotedMembers(d) == [k \in 1..Len(d) |-> <<"'">> \o DoubleQuotes(d[k]) \o <<"'">>]

\* information_schema.columns.column_type of the column: enum('v1',...,'vn')
ColumnTypeText(d) == <<"enum(">> \o Join(QuotedMembers(d)) \o <<")">>

\* The loop over enumStr: values collected so far, inQuote and currentValue.
RECURSIVE CollectEnumValues(_, _, _, _)
CollectEnumValues(enumStr, values, inQuote, currentValue) ==
  IF enumStr = <<>> THEN values
  ELSE LET char == enumStr[1]
       IN IF char = "'"
          THEN IF inQuote /\ currentValue # <<>>
               THEN CollectEnumValues(Tail(enumStr), Append(values, currentValue), FALSE, <<>>)
               ELSE CollectEnumValues(Tail(enumStr), values, ~inQuote, currentValue)
          ELSE IF char = "," /\ ~inQuote
          THEN CollectEnumValues(Tail(enumStr), values, inQuote, currentValue)
          ELSE IF inQuote
          THEN CollectEnumValues(Tail(enumStr), values, inQuote, Append(currentValue, char))
          ELSE CollectEnumValues(Tail(enumStr), values, inQuote, currentValue)

\* GetSchema: the values of an enum column from its column_type.
ParseEnumValues(columnTypeText) ==
  LET enumStr == IF HasPrefix(columnTypeText, "enum(") /\ HasSuffix(columnTypeText, ")")
                 THEN SubSeq(columnTypeText, 2, Len(columnTypeText) - 1)
                 ELSE columnTypeText
  IN CollectEnumValues(enumStr, <<>>, FALSE, <<>>)

\* A table with one enum column, declared in the database.
EnumInit ==
  /\ OthersAtRest("introspect")
  /\ spc = "idle" /\ origSchema = NoValue /\ schemaFile = NoValue /\ readSchema = NoValue
  /\ epc = "declared"
  /\ declared \in Declarations
  /\ enumValues = <<>>

\* GetSchema: the column is scanned and its enum recorded.
GetSchemaEnum ==
  /\ pc = "introspect" /\ epc = "declared"
  /\ enumValues' = ParseEnumValues(ColumnTypeText(declared))
  /\ epc' = "parsed"
  /\ UNCHANGED <<restoreVars, codecVars, genVars, spc, origSchema, schemaFile, readSchema, declared>>

EnumNext == GetSchemaEnum

SpecEnum == EnumInit /\ [][EnumNext]_vars

\* C18: for a column declared enum('v1',...,'vn') GetSchema records exactly
\* the values v1, ..., vn in the order of the declaration.
C18_EnumValuesAsDeclared == epc = "parsed" => enumValues = declared

\* ======================================================================
\* Part 7: schema.json.  ExportSchema serialises a Schema with
\* json.MarshalIndent under the struct tags of Column, ForeignKey, Table,
\* EnumItem and Schema; ReadSchemaFromFile reads it back with json.Unmarshal.
\* ======================================================================

\* The longest column list of a table of an exported schema.
MaxColumns == 2

\* A Go slice: nil or not, and its elements.
NilSlice == [nil |-> TRUE, items |-> <<>>]

Slice(items) == [nil |-> FALSE, items |-> items]

\* type Column struct: Default is an interface{} (GoNil or a value),
\* ForeignKey a pointer (GoNil or a ForeignKey).
SchemaColumn(name, type, nullable, default, isPrimary, isUnique, foreignKey, enum) ==
  [name |-> name, type |-> type, nullable |-> nullable, default |-> default,
   isPrimary |-> isPrimary, isUnique |-> isUnique, foreignKey |-> foreignKey, enum |-> enum]

\* type Table struct
SchemaTable(name, columns) == [name |-> name, columns |-> columns]

\* type EnumItem struct
EnumItem(name, values) == [name |-> name, values |-> values]

\* type Schema struct
Schema(databaseType, enums, tables) ==
  [databaseType |-> databaseType, enums |-> enums, tables |-> tables]

\* ----------------------------------------------------------- JSON values
\* A JSON document as encoding/json writes and reads it: null, a literal,
\* a string (its text as it stands between the quotes, escapes included),
\* a number (its literal), an array, an object (its members in order).
JNull == [j |-> "null"]

JBool(b) == [j |-> "bool", b |-> b]

JString(s) == [j |-> "string", s |-> s]

JNumber(s) == [j |-> "number", s |-> s]

JArray(items) == [j |-> "array", items |-> items]

JObject(members) == [j |-> "object", members |-> members]

Member(key, value) == [key |-> key, value |-> value]

\* The characters json.Marshal escapes in a string, with their escapes.
EscapeTable ==
  {<<"\"", "\\\"">>, <<"\\", "\\\\">>, <<"\n", "\\n">>,
   <<"<", "\\u003c">>, <<">", "\\u003e">>, <<"&", "\\u0026">>}

EscapeToken(c) ==
  IF \E p \in EscapeTable : p[1] = c THEN (CHOOSE p \in EscapeTable : p[1] = c)[2] ELSE c

UnescapeToken(c) ==
  IF \E p \in EscapeTable : p[2] = c THEN (CHOOSE p \in EscapeTable : p[2] = c)[1] ELSE c

\* A Go string as a JSON string.
EncodeString(s) == JString([k \in 1..Len(s) |-> EscapeToken(s[k])])

\* The Go string a JSON string denotes.
DecodeString(v) == [k \in 1..Len(v.s) |-> UnescapeToken(v.s[k])]

\* strconv.AppendFloat(f, 'f', -1, 64) for the floats used here.
FormatFloat(f) ==
  (IF f.neg THEN <<"-">> ELSE <<>>) \o NatText(f.whole)
    \o (IF f.frac = <<>> THEN <<>> ELSE <<".">> \o f.frac)

\* ---------------------------------------------------------- json.Marshal
\* The value an interface{} holds.
MarshalValue(v) ==
  IF v.k = "string" THEN EncodeString(v.s)
  ELSE IF v.k = "bool" THEN JBool(v.b)
  ELSE IF v.k = "float" THEN JNumber(FormatFloat(v))
  ELSE JNull

MarshalForeignKey(fk) ==
  JObject(<<Member("table", EncodeString(fk.table)),
            Member("column", EncodeString(fk.column))>>)

\* Column with omitempty read as for a string: an empty default text is
\* left out as well.
MarshalColumnOmittingEmptyText(c) ==
  JObject(<<Member("name", EncodeString(c.name)),
            Member("type", EncodeString(c.type)),
            Member("nullable", JBool(c.nullable))>>
          \o (IF c.default = GoNil \/ c.default = GoString(<<>>) THEN <<>>
              ELSE <<Member("default", MarshalValue(c.default))>>)
          \o <<Member("isPrimary", JBool(c.isPrimary)),
               Member("isUnique", JBool(c.isUnique))>>
          \o (IF c.foreignKey = GoNil THEN <<>>
              ELSE <<Member("foreignKey", MarshalForeignKey(c.foreignKey))>>)
          \o (IF c.enum = <<>> THEN <<>>
              ELSE <<Member("enum", EncodeString(c.enum))>>))

\* Column: default is left out when the interface is nil, foreignKey when
\* the pointer is nil, enum when the string is empty.
MarshalColumn(c) ==
  JObject(<<Member("name", EncodeString(c.name)),
            Member("type", EncodeString(c.type)),
            Member("nullable", JBool(c.nullable))>>
          \o (IF c.default = GoNil THEN <<>>
              ELSE <<Member("default", MarshalValue(c.default))>>)
          \o <<Member("isPrimary", JBool(c.isPrimary)),
               Member("isUnique", JBool(c.isUnique))>>
          \o (IF c.foreignKey = GoNil THEN <<>>
              ELSE <<Member("foreignKey", MarshalForeignKey(c.foreignKey))>>)
          \o (IF c.enum = <<>> THEN <<>>
              ELSE <<Member("enum", EncodeString(c.enum))>>))

\* A slice is null when nil, else an array of its elements.
MarshalColumns(s) ==
  IF s.nil THEN JNull ELSE JArray([k \in 1..Len(s.items) |-> MarshalColumn(s.items[k])])

MarshalTable(t) ==
  JObject(<<Member("name", EncodeString(t.name)),
            Member("columns", MarshalColumns(t.columns))>>)

MarshalTables(s) ==
  IF s.nil THEN JNull ELSE JArray([k \in 1..Len(s.items) |-> MarshalTable(s.items[k])])

MarshalValues(s) ==
  IF s.nil THEN JNull ELSE JArray([k \in 1..Len(s.items) |-> EncodeString(s.items[k])])

MarshalEnumItem(e) ==
  JObject(<<Member("name", EncodeString(e.name)),
            Member("values", MarshalValues(e.values))>>)

MarshalEnums(s) ==
  IF s.nil THEN JNull ELSE JArray([k \in 1..Len(s.items) |-> MarshalEnumItem(s.items[k])])

\* Schema: tables is left out when the slice has no elements.
MarshalSchema(s) ==
  JObject(<<Member("databaseType", EncodeString(s.databaseType)),
            Member("enums", MarshalEnums(s.enums))>>
          \o (IF Len(s.tables.items) = 0 THEN <<>>
              ELSE <<Member("tables", MarshalTables(s.tables))>>))

\* -------------------------------------------------------- json.Unmarshal
\* The object has a member of that key.
HasMember(obj, key) == \E k \in 1..Len(obj.members) : obj.members[k].key = key

\* Its value; the last member of that key decides.
MemberValue(obj, key) ==
  LET hits == {k \in 1..Len(obj.members) : obj.members[k].key = key}
  IN obj.members[CHOOSE k \in hits : \A h \in hits : h <= k].value

\* The member is there and is not null: a field is assigned only then.
Assigned(obj, key) == HasMember(obj, key) /\ MemberValue(obj, key) # JNull

\* A string field: the zero value "" unless assigned.
UnmarshalString(obj, key) ==
  IF Assigned(obj, key) THEN DecodeString(MemberValue(obj, key)) ELSE <<>>

\* A bool field: the zero value false unless assigned.
UnmarshalBool(obj, key) ==
  IF Assigned(obj, key) THEN MemberValue(obj, key).b ELSE FALSE

\* An interface{} field: nil unless assigned, else a string, a float64 or
\* a bool after the kind of the JSON value.
UnmarshalValue(obj, key) ==
  IF ~Assigned(obj, key) THEN GoNil
  ELSE LET v == MemberValue(obj, key)
       IN IF v.j = "string" THEN GoString(DecodeString(v))
          ELSE IF v.j = "number" THEN ParseFloat(v.s)
          ELSE IF v.j = "bool" THEN GoBool(v.b)
          ELSE GoNil

UnmarshalForeignKey(obj, key) ==
  IF ~Assigned(obj, key) THEN GoNil
  ELSE LET v == MemberValue(obj, key)
       IN ForeignKey(UnmarshalString(v, "table"), UnmarshalString(v, "column"))

UnmarshalColumn(v) ==
  SchemaColumn(UnmarshalString(v, "name"), UnmarshalString(v, "type"),
               UnmarshalBool(v, "nullable"), UnmarshalValue(v, "default"),
               UnmarshalBool(v, "isPrimary"), UnmarshalBool(v, "isUnique"),
               UnmarshalForeignKey(v, "foreignKey"), UnmarshalString(v, "enum"))

\* A slice field: nil unless assigned, else a slice of the elements.
UnmarshalColumns(obj, key) ==
  IF ~Assigned(obj, key) THEN NilSlice
  ELSE LET items == MemberValue(obj, key).items
       IN Slice([k \in 1..Len(items) |-> UnmarshalColumn(items[k])])

UnmarshalTable(v) ==
  SchemaTable(UnmarshalString(v, "name"), UnmarshalColumns(v, "columns"))

UnmarshalTables(obj, key) ==
  IF ~Assigned(obj, key) THEN NilSlice
  ELSE LET items == MemberValue(obj, key).items
       IN Slice([k \in 1..Len(items) |-> UnmarshalTable(items[k])])

UnmarshalValues(obj, key) ==
  IF ~Assigned(obj, key) THEN NilSlice
  ELSE LET items == MemberValue(obj, key).items
       IN Slice([k \in 1..Len(items) |-> DecodeString(items[k])])

UnmarshalEnumItem(v) ==
  EnumItem(UnmarshalString(v, "name"), UnmarshalValues(v, "values"))

UnmarshalEnums(obj, key) ==
  IF ~Assigned(obj, key) THEN NilSlice
  ELSE LET items == MemberValue(obj, key).items
       IN Slice([k \in 1..Len(items) |-> UnmarshalEnumItem(items[k])])

UnmarshalSchema(v) ==
  Schema(UnmarshalString(v, "databaseType"),
         UnmarshalEnums(v, "enums"),
         UnmarshalTables(v, "tables"))

\* ---------------------------------------------------- the schemas exported
\* The columns of the exported tables.  Between them every field takes
\* more than one value; the defaults are none, the text of
\* information_schema's column_default (the empty text included) and what
\* a schema.json written by hand gives after json.Unmarshal, a float64 (and
\* a bool, in AuthorsTable).
SchemaColumns ==
  {SchemaColumn(<<"id">>, <<"integer">>, FALSE, GoString(<<"nextval(", "'", "posts_id_seq", "'", ")">>),
                TRUE, FALSE, GoNil, <<>>),
   SchemaColumn(<<"author_id">>, <<"integer">>, TRUE, GoNil,
                FALSE, FALSE, ForeignKey(<<"authors">>, <<"id">>), <<>>),
   SchemaColumn(<<"state">>, <<"enum">>, FALSE, GoString(<<"'", "a", "<", "b", "'", "::text">>),
                FALSE, FALSE, GoNil, <<"status">>),
   SchemaColumn(<<"e", "\"", "mail">>, <<"varchar">>, TRUE, GoString(<<>>),
                FALSE, TRUE, GoNil, <<>>),
   SchemaColumn(<<"price">>, <<"numeric">>, FALSE, GoFloat(FALSE, 1, <<"5">>),
                FALSE, FALSE, GoNil, <<>>)}

\* The column lists of up to n columns.
RECURSIVE ColumnLists(_)
ColumnLists(n) ==
  IF n = 0 THEN {<<>>}
  ELSE LET shorter == ColumnLists(n - 1)
       IN shorter \cup {Append(l, c) : l \in {x \in shorter : Len(x) = n - 1}, c \in SchemaColumns}

\* Column slices: nil (a table written by hand without "columns"), or a
\* list.
ColumnSlices == {NilSlice} \cup {Slice(l) : l \in ColumnLists(MaxColumns)}

AuthorsTable ==
  SchemaTable(<<"authors">>,
              Slice(<<SchemaColumn(<<"id">>, <<"uuid">>, FALSE, GoNil, TRUE, FALSE, GoNil, <<>>),
                      SchemaColumn(<<"active">>, <<"boolean">>, FALSE, GoBool(TRUE),
                                   FALSE, FALSE, GoNil, <<>>)>>))

\* Table slices: nil, an empty one (ExtractSchema and GetSchema start from
\* one), one table, two tables in either order.
TableSlices ==
  {NilSlice, Slice(<<>>)}
    \cup {Slice(<<SchemaTable(<<"posts">>, cs)>>) : cs \in ColumnSlices}
    \cup {Slice(<<AuthorsTable, SchemaTable(<<"posts">>, cs)>>) : cs \in ColumnSlices}
    \cup {Slice(<<SchemaTable(<<"posts">>, cs), AuthorsTable>>) : cs \in ColumnSlices}

\* Enum slices: nil (ExtractSchema appends to a nil slice), empty
\* (GetSchema), and enums whose values come in one order or the other.
EnumSlices ==
  {NilSlice, Slice(<<>>),
   Slice(<<EnumItem(<<"status">>, Slice(<<<<"a", "<", "b">>, <<"it", "'", "s">>>>))>>),
   Slice(<<EnumItem(<<"status">>, Slice(<<<<"it", "'", "s">>, <<"a", "<", "b">>>>))>>),
   Slice(<<EnumItem(<<"status">>, Slice(<<<<>>>>)), EnumItem(<<"mood">>, NilSlice)>>),
   Slice(<<EnumItem(<<"mood">>, Slice(<<>>)), EnumItem(<<"status">>, Slice(<<<<"a", "<", "b">>>>))>>)}

\* The engine tags: the two constants, and none (a file written by hand).
DatabaseTypes == {<<"postgres">>, <<"mysql">>, <<>>}

Schemas ==
  {Schema(d, e, t) : d \in DatabaseTypes, e \in EnumSlices, t \in TableSlices}

\* The names of the first n enums of a schema.
EnumNames(s, n) == {s.enums.items[k].name : k \in 1..n}

\* A manager, a Schema to export, and the enum types its database holds.
SchemaInit ==
  /\ engine \in {"postgres", "mysql"}
  /\ connected = TRUE
  /\ schema = [tables |-> <<>>, enums |-> <<>>]
  /\ dbTables = {} /\ dbNoCol = {} /\ dbFKs = {}
  /\ dbEnums \in {{}, {<<"status">>}}
  /\ dbRows = NoRows
  /\ created = {}
  /\ sortedTables = <<>>
  /\ pc = "schema"
  /\ ti = 1 /\ ci = 1
  /\ defers = <<>>
  /\ tx = "none" /\ txRows = <<>>
  /\ files = NoFiles
  /\ stmts = <<>>
  /\ warned = {}
  /\ result = "running"
  /\ AuxIdle
  /\ CodecIdle /\ GenIdle
  /\ spc = "built"
  /\ origSchema \in Schemas
  /\ schemaFile = NoValue /\ readSchema = NoValue
  /\ epc = "idle" /\ declared = <<>> /\ enumValues = <<>>

schemaRest ==
  <<engine, connected, schema, dbTables, dbNoCol, dbFKs, dbRows, created, sortedTables,
    pc, ti, ci, defers, tx, txRows, files, stmts, warned, result, codecVars, genVars,
    auxVars, origSchema, epc, declared, enumValues>>

\* ExportSchema: the document is written, or the directory or the file
\* cannot be.
ExportSchema ==
  /\ pc = "schema" /\ spc = "built"
  /\ \/ /\ schemaFile' = MarshalSchema(origSchema)
        /\ spc' = "exported"
     \/ /\ spc' = "failed"
        /\ UNCHANGED schemaFile
  /\ UNCHANGED <<schemaRest, dbEnums, readSchema>>

\* ReadSchemaFromFile: the file cannot be read; or it is parsed and, by the
\* PostgreSQL manager, its enum types are created one after the other, a
\* failure other than "already exists" ending the call without a schema.
ReadSchemaFromFile ==
  /\ pc = "schema" /\ spc = "exported"
  /\ LET parsed == UnmarshalSchema(schemaFile) IN
     \/ /\ spc' = "failed"
        /\ UNCHANGED <<dbEnums, readSchema>>
     \/ /\ engine = "mysql"
        /\ readSchema' = parsed
        /\ spc' = "read"
        /\ UNCHANGED dbEnums
     \/ /\ engine = "postgres"
        /\ \E n \in 0..Len(parsed.enums.items) :
             /\ dbEnums' = dbEnums \cup EnumNames(parsed, n)
             /\ IF n = Len(parsed.enums.items)
                THEN readSchema' = parsed /\ spc' = "read"
                ELSE spc' = "failed" /\ UNCHANGED readSchema
  /\ UNCHANGED <<schemaRest, schemaFile>>

SchemaNext == ExportSchema \/ ReadSchemaFromFile

SpecSchema == SchemaInit /\ [][SchemaNext]_vars

\* Two column, table or enum lists are structurally equal: the same
\* elements in the same order.
SameEnums(a, b) ==
  /\ Len(a.items) = Len(b.items)
  /\ \A k \in 1..Len(a.items) :
       /\ a.items[k].name = b.items[k].name
       /\ a.items[k].values.items = b.items[k].values.items

SameColumns(a, b) ==
  /\ Len(a.items) = Len(b.items)
  /\ \A k \in 1..Len(a.items) :
       /\ a.items[k].name = b.items[k].name
       /\ a.items[k].type = b.items[k].type
       /\ a.items[k].nullable = b.items[k].nullable
       /\ a.items[k].default = b.items[k].default
       /\ a.items[k].isPrimary = b.items[k].isPrimary
       /\ a.items[k].isUnique = b.items[k].isUnique
       /\ a.items[k].foreignKey = b.items[k].foreignKey
       /\ a.items[k].enum = b.items[k].enum

SameTables(a, b) ==
  /\ Len(a.items) = Len(b.items)
  /\ \A k \in 1..Len(a.items) :
       /\ a.items[k].name = b.items[k].name
       /\ SameColumns(a.items[k].columns, b.items[k].columns)

StructurallyEqual(a, b) ==
  /\ a.databaseType = b.databaseType
  /\ SameEnums(a.enums, b.enums)
  /\ SameTables(a.tables, b.tables)

\* C17: the Schema ReadSchemaFromFile returns for the schema.json that
\* ExportSchema wrote is structurally equal to the exported one: the same
\* engine tag, the same enums with their values in the same order, the same
\* tables and columns in the same order with the same type, nullability,
\* default, primary and unique flags, foreign key and enum reference.
C17_SchemaRoundTrip == spc = "read" => StructurallyEqual(readSchema, origSchema)

\* A schema with an enum of two values and two tables, one with a foreign
\* key column and a column of the enum with a default, has been read back.
C17_Witness ==
  /\ spc = "read"
  /\ Len(origSchema.enums.items) = 1
  /\ Len(origSchema.enums.items[1].values.items) = 2
  /\ Len(origSchema.tables.items) = 2
  /\ \E t \in 1..2 :
       LET cols == origSchema.tables.items[t].columns.items
       IN /\ Len(cols) = 2
          /\ cols[1].foreignKey # GoNil
          /\ cols[2].enum # <<>> /\ cols[2].default # GoNil

\* ======================================================================
\* Part 8: RestoreFromCSV run twice in succession on one snapshot directory
\* ======================================================================

\* What a run leaves in the target database.
Database == [tables |-> dbTables, enums |-> dbEnums, fks |-> dbFKs, rows |-> dbRows]

\* The first run has returned nil and RestoreFromCSV is called again, by
\* the same manager with the same directory.
Rerun ==
  /\ pc = "done" /\ result = "ok" /\ runNo = 1
  /\ runNo' = 2
  /\ firstDB' = Database
  /\ firstFiles' = files
  /\ firstWarned' = warned
  /\ pc' = "start"
  /\ ti' = 1 /\ ci' = 1
  /\ created' = {}
  /\ sortedTables' = <<>>
  /\ defers' = <<>>
  /\ tx' = "none" /\ txRows' = <<>>
  /\ files' = NoFiles
  /\ stmts' = <<>>
  /\ warned' = {}
  /\ result' = "running"
  /\ UNCHANGED <<engine, connected, schema, dbTables, dbNoCol, dbEnums, dbFKs, dbRows,
                 codecVars, genVars, schemaVars, seq, poolVars>>

\* The row files are those the first run read: a file is there or not as
\* before, and holds the same data lines.
ReadsSameFiles ==
  \A t \in TableIds :
    /\ files[t].status = "absent" => firstFiles[t].status = "absent"
    /\ files[t].status \in {"open", "eof"} => firstFiles[t].status = "eof"
    /\ Len(files[t].rows) <= Len(firstFiles[t].rows)
    /\ files[t].rows = SubSeq(firstFiles[t].rows, 1, Len(files[t].rows))
    /\ files[t].status = "eof" => files[t].rows = firstFiles[t].rows

\* Data lines of a snapshot that is restored twice, all row files together.
RerunRows == 1

\* The snapshot directory holds a row file for every table of its schema,
\* as ExportToCSV writes it.
EveryRowFile == \A t \in TableIds : files[t].status # "absent"

\* A step of the first run.
FirstRun == runNo = 1 /\ Next /\ TotalRows' <= RerunRows /\ EveryRowFile'

\* A step of the second run, error returns included.
SecondRun == runNo = 2 /\ Next /\ ReadsSameFiles'

RerunNext == FirstRun \/ Rerun \/ SecondRun

SpecRerun == Init /\ [][RerunNext]_vars

\* The second run met the snapshot and the database answers of the first:
\* the row files read the same, the same foreign keys refused.
SameSnapshot == files = firstFiles /\ warned = firstWarned

\* C21: a second run that returned success on the same snapshot leaves the
\* enums, tables, constraints and rows the first run left.
C21_RerunLeavesSame ==
  (runNo = 2 /\ result = "ok" /\ SameSnapshot) => Database = firstDB

\* A second run has returned success where the enum types, the tables with
\* rows, and a foreign-key constraint were there from the first.
C21_Witness ==
  /\ runNo = 2 /\ result = "ok" /\ SameSnapshot
  /\ firstDB.enums # {}
  /\ firstDB.fks # {}
  /\ \E t \in Names(schema.tables) : firstDB.rows[t] # <<>>
  /\ created = {}

\* ======================================================================
\* Part 9: the Dependency Orderer and foreign keys that leave the list
\* ======================================================================

\* The orders sortTablesByDependencies can return for a list, by variant.
SortResults(tables) ==
  IF engine = "mysql" THEN MySortResults(tables) ELSE LgSortResults(tables)

\* The names of a returned list, in order.
NameOrder(sorted) == [j \in 1..Len(sorted) |-> sorted[j].name]

\* The orders of names the orderer can return for a list.
Orders(tables) == {NameOrder(r) : r \in SortResults(tables)}

\* The list with the c-th foreign key of its k-th table removed.
WithoutFK(tables, k, c) ==
  [tables EXCEPT ![k].fks = SubSeq(@, 1, c - 1) \o SubSeq(@, c + 1, Len(@))]

\* The foreign keys of the list that point to no table of the list: the
\* table's place in the list and the foreign key's place in the table.
AbsentFKs(tables) ==
  {<<k, c>> \in (1..Len(tables)) \X (1..SortFKs) :
     c <= Len(tables[k].fks) /\ tables[k].fks[c] \notin Names(tables)}

\* C22: for a foreign key that points to a table absent from the list, the
\* orders the orderer can return are those it can return for the list
\* without that foreign key, and the table returned is the table of the
\* list, foreign key included.
C22_AbsentTargetNoEdge ==
  \A a \in AbsentFKs(schema.tables) :
    /\ pc = "sort" =>
         Orders(WithoutFK(schema.tables, a[1], a[2])) \subseteq Orders(schema.tables)
    /\ pc = "tables" =>
         /\ NameOrder(sortedTables) \in Orders(WithoutFK(schema.tables, a[1], a[2]))
         /\ \E j \in 1..Len(sortedTables) : sortedTables[j] = schema.tables[a[1]]

\* A list was sorted in which one table has a foreign key to an absent
\* table before a foreign key to a table of the list.
C22_Witness ==
  /\ pc = "tables"
  /\ \E a \in AbsentFKs(schema.tables) :
       /\ a[2] = 1
       /\ Len(schema.tables[a[1]].fks) = 2
       /\ schema.tables[a[1]].fks[2] \in Names(schema.tables) \ {schema.tables[a[1]].name}

\* C23: two calls of the orderer on one table list return the same order:
\* the order returned is the only one the orderer can return for the list.
C23_DeterministicOrder ==
  pc = "tables" => \A r \in SortResults(schema.tables) : NameOrder(r) = NameOrder(sortedTables)

\* ===================================================================
\* Part 10. One cell through export and import, on either engine
\* ===================================================================
\* fmt.Sprintf("%q", s): the text between double quotes, a double quote and
\* a backslash inside it escaped.
RECURSIVE QuoteBody(_)
QuoteBody(s) ==
  IF s = <<>> THEN <<>>
  ELSE (IF s[1] \in {Quote, "\\"} THEN <<"\\", s[1]>> ELSE <<s[1]>>) \o QuoteBody(Tail(s))

GoQuote(s) == <<Quote>> \o QuoteBody(s) \o <<Quote>>

\* strings.Trim(s, "{}"): braces taken off both ends for as long as there
\* are any.
RECURSIVE TrimBraces(_)
TrimBraces(s) ==
  IF s = <<>> THEN s
  ELSE IF s[1] \in {"{", "}"} THEN TrimBraces(Tail(s))
  ELSE IF s[Len(s)] \in {"{", "}"} THEN TrimBraces(SubSeq(s, 1, Len(s) - 1))
  ELSE s

\* strings.HasPrefix(v, "{\"")
HasObjectPrefix(v) == Len(v) >= 2 /\ v[1] = "{" /\ v[2] = Quote

\* The branch of MySQLManager.importCSV for json, jsonb and array columns.
MyImportJSON(v) ==
  IF HasPrefix(v, "{") /\ HasSuffix(v, "}") /\ ~HasObjectPrefix(v)
  THEN LET elements == SplitCommas(TrimBraces(v), <<>>)
           jsonArray == [j \in 1..Len(elements) |-> GoQuote(TrimSpace(elements[j]))]
       IN <<"[">> \o Join(jsonArray) \o <<"]">>
  ELSE IF HasPrefix(v, "[") /\ HasSuffix(v, "]") THEN v
  ELSE IF ~HasObjectPrefix(v) /\ ~HasPrefix(v, "[") THEN <<"[", Quote>> \o v \o <<Quote, "]">>
  ELSE v

\* t.Format("2006-01-02 15:04:05"): the wall clock of the time parsed.
FormatDateTime(t) == <<t.date, " ">> \o TwoDigits(t.hour) \o <<":00:00">>

\* MySQLManager.importCSV, the value bound for one field of a record.
MyImportValue(v, lowType) ==
  IF v \in {<<>>, <<"NULL">>, <<"null">>} THEN GoNil
  ELSE IF lowType \in {"boolean", "bool"}
  THEN (IF ToLower(v) \in {<<"true">>, <<"t">>, <<"yes">>, <<"y">>, <<"1">>} THEN GoInt(1)
        ELSE IF ToLower(v) \in {<<"false">>, <<"f">>, <<"no">>, <<"n">>, <<"0">>} THEN GoInt(0)
        ELSE GoString(v))
  ELSE IF lowType \in {"json", "jsonb", "array"} THEN GoString(MyImportJSON(v))
  ELSE IF Contains(v, "UTC") /\ ParseZoned(v).ok THEN GoString(FormatDateTime(ParseZoned(v).t))
  ELSE IF ParseRFC3339(v).ok THEN GoString(FormatDateTime(ParseRFC3339(v).t))
  ELSE GoString(v)

\* The column types of the cells followed here: the JSON types, a text type
\* and the numeric types.
NumericTypes == {"integer", "bigint", "serial", "numeric", "decimal", "real", "double precision"}

CellTypes == {"json", "jsonb", "text"} \cup NumericTypes

\* Texts that are valid JSON: an object, the empty object, an object with a
\* space after the brace, an array, and the scalars.
JSONTexts ==
  { <<"{", Quote, "a", Quote, ":", "1", "}">>,
    <<"{", "}">>,
    <<"{", " ", Quote, "a", Quote, ":", " ", "1", "}">>,
    <<"[", "1", ",", "2", "]">>,
    <<Quote, "a", Quote>>,
    <<"5">>,
    <<"true">>,
    <<"null">> }

\* Strings a text column holds.
StoredTexts == {<<>>, <<"NULL">>, <<"null">>, <<"a">>, <<"a", " ", "b">>}

\* Texts of the cells of a numeric column, as written by an export or by
\* hand.
NumberTexts ==
  {<<"5">>, <<"-", "7">>, <<"+", "5">>, <<"1", ".", "5">>, <<"-", "0", ".", "5", "0">>, <<"x">>}

\* What the driver scans from a column of the type, NULL apart.
CellScanned(type) ==
  CASE type \in {"json", "jsonb"} -> {GoBytes(t) : t \in JSONTexts}
    [] type = "text" -> {GoBytes(t) : t \in StoredTexts}
    [] type \in {"integer", "bigint", "serial"} -> {GoInt(5), GoInt(0 - 7)}
    [] OTHER -> {GoBytes(<<"1", ".", "5">>), GoBytes(<<"5">>)}

\* What a row file holds in a column of the type.
CellWritten(type) ==
  CASE type \in {"json", "jsonb"} -> JSONTexts \cup {<<"x">>}
    [] type = "text" -> StoredTexts
    [] OTHER -> NumberTexts

CellInit ==
  /\ engine \in {"postgres", "mysql"}
  /\ connected = TRUE
  /\ schema = [tables |-> <<>>, enums |-> <<>>]
  /\ dbTables = {} /\ dbNoCol = {} /\ dbEnums = {} /\ dbFKs = {}
  /\ dbRows = NoRows
  /\ created = {}
  /\ sortedTables = <<>>
  /\ pc = "cell"
  /\ ti = 1 /\ ci = 1
  /\ defers = <<>>
  /\ tx = "none" /\ txRows = <<>>
  /\ files = NoFiles
  /\ stmts = <<>>
  /\ warned = {}
  /\ result = "running"
  /\ AuxIdle
  /\ GenIdle
  /\ SchemaIdle
  /\ colType \in CellTypes
  /\ imported = NoValue
  /\ \/ /\ cpc = "native"
        /\ native \in CellScanned(colType) \cup {GoNil}
        /\ text = <<>>
     \/ /\ cpc = "text"
        /\ native = NoValue
        /\ text \in CellWritten(colType)

\* exportTableToCSV of either manager: the cell of the row that is written
CellExport ==
  /\ pc = "cell" /\ cpc = "native"
  /\ text' = Export(native)
  /\ cpc' = "text"
  /\ UNCHANGED <<restoreVars, genVars, schemaVars, colType, native, imported>>

\* PostgresManager.importCSV: values[i] = p.processCSVValue(v, ...)
PgCellImport ==
  /\ pc = "cell" /\ cpc = "text" /\ engine = "postgres"
  /\ imported' = processCSVValue(text, colType)
  /\ cpc' = "imported"
  /\ UNCHANGED <<restoreVars, genVars, schemaVars, colType, native, text>>

\* MySQLManager.importCSV: values[i] of the record
MyCellImport ==
  /\ pc = "cell" /\ cpc = "text" /\ engine = "mysql"
  /\ imported' = MyImportValue(text, LowerType(colType))
  /\ cpc' = "imported"
  /\ UNCHANGED <<restoreVars, genVars, schemaVars, colType, native, text>>

CellNext == CellExport \/ PgCellImport \/ MyCellImport

SpecCell == CellInit /\ [][CellNext]_vars

\* C24: on import into a json or jsonb column a text that is valid JSON is
\* handed to the database as it stands, by the PostgreSQL import and by the
\* MySQL import alike.
C24_ValidJSONUnchanged ==
  (pc = "cell" /\ cpc = "imported" /\ colType \in {"json", "jsonb"} /\ IsJSONValue(text))
    => imported = GoString(text)

\* The value the rule "an integer if the text parses as one, else a float
\* if it parses as one, else the text" gives.
IntThenFloat(value) ==
  IF IsInt(value) THEN GoInt(ParseInt(value))
  ELSE IF IsFloat(value) THEN ParseFloat(value)
  ELSE GoString(value)

\* C25: on import into a column of a numeric type (integer, bigint, serial,
\* numeric, decimal, real, double precision) the PostgreSQL import parses
\* the text as an integer, failing that as a float, and failing that keeps
\* the text; a value is always produced.
C25_IntThenFloatThenText ==
  (pc = "cell" /\ cpc = "imported" /\ engine = "postgres" /\ colType \in NumericTypes
     /\ text \notin {<<>>, <<"NULL">>, <<"null">>})
    => imported = IntThenFloat(text)

\* ===================================================================
\* Part 11. The sequence reset and the transactions of a restore
\* ===================================================================
\* C26: when the reset of a serial column's sequence fails after the rows
\* of the table were loaded, the failure is logged only: the rows loaded
\* are committed and the import does not end in an error.
C26_SequenceFailureOnlyLogged ==
  \A t \in TableIds :
    seq[t] = "failed" =>
      /\ result # "error"
      /\ tx = "committed"
      /\ Len(dbRows[t]) >= Len(files[t].rows)

\* C27: every transaction begun during a restore is committed or rolled
\* back when the function that began it returns, on every return path of
\* importCSV (postgres.go) and of RestoreFromCSV (mysql.go): none is left
\* open.
C27_NoTransactionLeftOpen == result # "running" => tx # "open"

\* ===================================================================
\* Part 12. The connection pool under a restore
\* ===================================================================
\* database/sql keeps the idle connections of a *sql.DB in freeConn. A
\* statement issued on the DB runs on the idle connection freed last, or on
\* a new connection when none is idle, and frees it again; a transaction
\* holds its connection from Begin to Commit or Rollback. The managers open
\* the DB with sql.Open and change no setting of the pool, so at most
\* MaxIdleConns connections are kept idle and a connection freed beyond
\* that is closed.
MaxIdleConns == 2

\* Tables a restore loads.
PoolTables == 2

\* Rows loaded into one table.
PoolRows == 2

\* The connection conn() hands out.
Conn(fc, ss) ==
  IF fc # <<>> THEN fc[Len(fc)]
  ELSE CHOOSE c \in Conns : ss[c] = "closed" /\ \A d \in Conns : ss[d] = "closed" => c <= d

\* The idle connections once conn() took one.
Taken(fc) == IF fc # <<>> THEN SubSeq(fc, 1, Len(fc) - 1) ELSE fc

\* The session of a connection in use: a new connection enforces.
Opened(ss, c) == IF ss[c] = "closed" THEN [ss EXCEPT ![c] = "enforcing"] ELSE ss

\* putConn: the connection is idle again, or closed when enough are idle.
PutConn(fc, ss, c) ==
  IF Len(fc) < MaxIdleConns THEN [fc |-> Append(fc, c), ss |-> ss]
  ELSE [fc |-> fc, ss |-> [ss EXCEPT ![c] = "closed"]]

\* DB.Exec of a SET statement that leaves the session in `mode`.
ExecSet(fc, ss, mode) == PutConn(Taken(fc), [ss EXCEPT ![Conn(fc, ss)] = mode], Conn(fc, ss))

\* DB.Exec, DB.QueryRow or DB.Prepare of any other statement.
ExecOther(fc, ss) == PutConn(Taken(fc), Opened(ss, Conn(fc, ss)), Conn(fc, ss))

\* tx.Commit or tx.Rollback: the connection of the transaction is freed.
EndTx(fc, ss, c) == IF c = 0 THEN [fc |-> fc, ss |-> ss] ELSE PutConn(fc, ss, c)

\* The deferred statement that restores enforcement, when it was deferred.
PoolDeferredEnable(p) ==
  IF "enable" \in Range(defers) THEN ExecSet(p.fc, p.ss, "enforcing") ELSE p

\* The deferred rollback of MySQLManager.RestoreFromCSV, which runs after
\* the deferred SET.
PoolDeferredRollback(p, outerErr, txNow) ==
  IF "rollback" \in Range(defers) /\ outerErr /\ txNow = "open" THEN EndTx(p.fc, p.ss, txConn) ELSE p

\* return from RestoreFromCSV with the pool as p: the deferred calls run.
PoolReturn(res, outerErr, p, txNow) ==
  LET q == PoolDeferredRollback(PoolDeferredEnable(p), outerErr, txNow)
  IN /\ result' = res
     /\ pc' = "pool-done"
     /\ freeConn' = q.fc
     /\ sessions' = q.ss
     /\ tx' = RunDeferredRollback(outerErr, txNow)
     /\ txConn' = IF tx' = "open" THEN txConn ELSE 0

Pool == [fc |-> freeConn, ss |-> sessions]

\* What no step of the pool changes.
poolRest ==
  <<engine, connected, schema, dbTables, dbNoCol, dbEnums, dbFKs, dbRows, created,
    sortedTables, txRows, files, stmts, warned, codecVars, genVars, schemaVars, rerunVars, seq>>

\* The pool RestoreFromCSV is called with: no connection yet, or idle
\* connections that earlier commands of the process left.
PoolInit ==
  /\ engine \in {"postgres", "mysql"}
  /\ connected = TRUE
  /\ schema = [tables |-> <<>>, enums |-> <<>>]
  /\ dbTables = {} /\ dbNoCol = {} /\ dbEnums = {} /\ dbFKs = {}
  /\ dbRows = NoRows
  /\ created = {}
  /\ sortedTables = <<>>
  /\ pc = "pool-start"
  /\ ti = 1 /\ ci = 0
  /\ defers = <<>>
  /\ tx = "none" /\ txRows = <<>>
  /\ files = NoFiles
  /\ stmts = <<>>
  /\ warned = {}
  /\ result = "running"
  /\ CodecIdle
  /\ GenIdle
  /\ SchemaIdle
  /\ RerunIdle /\ seq = NoSeq
  /\ \E n \in 0..MaxIdleConns :
       /\ sessions = [c \in Conns |-> IF c <= n THEN "enforcing" ELSE "closed"]
       /\ freeConn = [k \in 1..n |-> k]
  /\ txConn = 0
  /\ loadedOn = {}

\* PostgresManager.RestoreFromCSV: SET session_replication_role = 'replica'
\* and its deferred reset.
PgPoolSuspend ==
  /\ pc = "pool-start" /\ engine = "postgres"
  /\ \/ /\ PoolReturn("error", FALSE, ExecOther(freeConn, sessions), tx)
        /\ UNCHANGED defers
     \/ /\ freeConn' = ExecSet(freeConn, sessions, "suspended").fc
        /\ sessions' = ExecSet(freeConn, sessions, "suspended").ss
        /\ defers' = <<"enable">>
        /\ pc' = "pool-schema"
        /\ UNCHANGED <<result, tx, txConn>>
  /\ UNCHANGED <<poolRest, ti, ci, loadedOn>>

\* The statements of the enum, table and foreign-key steps, each through
\* the pool.
PgPoolSchema ==
  /\ pc = "pool-schema" /\ engine = "postgres"
  /\ \/ /\ PoolReturn("error", FALSE, ExecOther(freeConn, sessions), tx)
     \/ /\ freeConn' = ExecOther(freeConn, sessions).fc
        /\ sessions' = ExecOther(freeConn, sessions).ss
        /\ pc' = "pool-load"
        /\ UNCHANGED <<result, tx, txConn>>
  /\ UNCHANGED <<poolRest, ti, ci, defers, loadedOn>>

\* The import loop: a table without a row file is passed over; importCSV
\* begins its transaction.
PgPoolBegin ==
  /\ pc = "pool-load" /\ engine = "postgres" /\ ti <= PoolTables
  /\ \/ /\ ti' = ti + 1
        /\ UNCHANGED <<pc, ci, tx, txConn, freeConn, sessions, result>>
     \/ /\ txConn' = Conn(freeConn, sessions)
        /\ freeConn' = Taken(freeConn)
        /\ sessions' = Opened(sessions, Conn(freeConn, sessions))
        /\ tx' = "open"
        /\ ci' = 0
        /\ pc' = "pool-rows"
        /\ UNCHANGED <<ti, result>>
  /\ UNCHANGED <<poolRest, defers, loadedOn>>

\* importCSV: a row handed to the COPY statement of the transaction, or an
\* error return of the read loop, which leaves the transaction open.
PgPoolCopy ==
  /\ pc = "pool-rows" /\ engine = "postgres"
  /\ \/ /\ ci < PoolRows
        /\ loadedOn' = loadedOn \cup {sessions[txConn]}
        /\ ci' = ci + 1
        /\ UNCHANGED <<pc, tx, txConn, freeConn, sessions, result>>
     \/ /\ PoolReturn("error", FALSE, Pool, tx)
        /\ UNCHANGED <<ci, loadedOn>>
  /\ UNCHANGED <<poolRest, ti, defers>>

\* importCSV at the end of the file: tx.Commit() frees the connection,
\* whether it succeeds or not.
PgPoolCommit ==
  /\ pc = "pool-rows" /\ engine = "postgres"
  /\ \/ /\ PoolReturn("error", FALSE, EndTx(freeConn, sessions, txConn), "rolledback")
        /\ UNCHANGED ti
     \/ /\ freeConn' = EndTx(freeConn, sessions, txConn).fc
        /\ sessions' = EndTx(freeConn, sessions, txConn).ss
        /\ txConn' = 0
        /\ tx' = "committed"
        /\ ti' = ti + 1
        /\ pc' = "pool-load"
        /\ UNCHANGED result
  /\ UNCHANGED <<poolRest, ci, defers, loadedOn>>

\* return nil
PgPoolDone ==
  /\ pc = "pool-load" /\ engine = "postgres" /\ ti > PoolTables
  /\ PoolReturn("ok", FALSE, Pool, tx)
  /\ UNCHANGED <<poolRest, ti, ci, defers, loadedOn>>

\* MySQLManager.RestoreFromCSV: DB.Begin() and the deferred rollback.
MyPoolBegin ==
  /\ pc = "pool-start" /\ engine = "mysql"
  /\ \/ /\ PoolReturn("error", FALSE, ExecOther(freeConn, sessions), tx)
        /\ UNCHANGED defers
     \/ /\ txConn' = Conn(freeConn, sessions)
        /\ freeConn' = Taken(freeConn)
        /\ sessions' = Opened(sessions, Conn(freeConn, sessions))
        /\ tx' = "open"
        /\ defers' = <<"rollback">>
        /\ pc' = "pool-suspend"
        /\ UNCHANGED result
  /\ UNCHANGED <<poolRest, ti, ci, loadedOn>>

\* DB.Exec("SET FOREIGN_KEY_CHECKS = 0") and its deferred reset: the
\* statement goes through the pool, not through the transaction.
MyPoolSuspend ==
  /\ pc = "pool-suspend" /\ engine = "mysql"
  /\ \/ /\ PoolReturn("error", FALSE, ExecOther(freeConn, sessions), tx)
        /\ UNCHANGED defers
     \/ /\ freeConn' = ExecSet(freeConn, sessions, "suspended").fc
        /\ sessions' = ExecSet(freeConn, sessions, "suspended").ss
        /\ defers' = Append(defers, "enable")
        /\ pc' = "pool-schema"
        /\ UNCHANGED <<result, tx, txConn>>
  /\ UNCHANGED <<poolRest, ti, ci, loadedOn>>

\* ReadSchemaFromFile, whose error is the function's own err, and the
\* statements of the table step, each through the pool.
MyPoolSchema ==
  /\ pc = "pool-schema" /\ engine = "mysql"
  /\ \/ PoolReturn("error", TRUE, Pool, tx)
     \/ PoolReturn("error", FALSE, ExecOther(freeConn, sessions), tx)
     \/ /\ freeConn' = ExecOther(freeConn, sessions).fc
        /\ sessions' = ExecOther(freeConn, sessions).ss
        /\ pc' = "pool-load"
        /\ UNCHANGED <<result, tx, txConn>>
  /\ UNCHANGED <<poolRest, ti, ci, defers, loadedOn>>

\* The import loop: a table without a row file is passed over; importCSV
\* prepares its INSERT with DB.Prepare.
MyPoolLoad ==
  /\ pc = "pool-load" /\ engine = "mysql" /\ ti <= PoolTables
  /\ \/ /\ ti' = ti + 1
        /\ UNCHANGED <<pc, ci, tx, txConn, freeConn, sessions, result>>
     \/ /\ PoolReturn("error", FALSE, ExecOther(freeConn, sessions), tx)
        /\ UNCHANGED <<ti, ci>>
     \/ /\ freeConn' = ExecOther(freeConn, sessions).fc
        /\ sessions' = ExecOther(freeConn, sessions).ss
        /\ ci' = 0
        /\ pc' = "pool-rows"
        /\ UNCHANGED <<ti, result, tx, txConn>>
  /\ UNCHANGED <<poolRest, defers, loadedOn>>

\* importCSV: stmt.Exec of one row, on the connection conn() hands out.
MyPoolInsert ==
  /\ pc = "pool-rows" /\ engine = "mysql"
  /\ \/ /\ ci < PoolRows
        /\ loadedOn' = loadedOn \cup {Opened(sessions, Conn(freeConn, sessions))[Conn(freeConn, sessions)]}
        /\ freeConn' = ExecOther(freeConn, sessions).fc
        /\ sessions' = ExecOther(freeConn, sessions).ss
        /\ ci' = ci + 1
        /\ UNCHANGED <<pc, tx, txConn, result>>
     \/ /\ PoolReturn("error", FALSE, ExecOther(freeConn, sessions), tx)
        /\ UNCHANGED <<ci, loadedOn>>
  /\ UNCHANGED <<poolRest, ti, defers>>

\* importCSV at the end of the file.
MyPoolFinish ==
  /\ pc = "pool-rows" /\ engine = "mysql"
  /\ ti' = ti + 1
  /\ pc' = "pool-load"
  /\ UNCHANGED <<poolRest, ci, defers, tx, result, poolVars>>

\* tx.Commit(), which frees the connection of the transaction whether it
\* succeeds or not, and return.
MyPoolDone ==
  /\ pc = "pool-load" /\ engine = "mysql" /\ ti > PoolTables
  /\ \/ PoolReturn("ok", FALSE, EndTx(freeConn, sessions, txConn), "committed")
     \/ PoolReturn("error", FALSE, EndTx(freeConn, sessions, txConn), "rolledback")
  /\ UNCHANGED <<poolRest, ti, ci, defers, loadedOn>>

PoolNext ==
  \/ PgPoolSuspend \/ PgPoolSchema \/ PgPoolBegin \/ PgPoolCopy \/ PgPoolCommit \/ PgPoolDone
  \/ MyPoolBegin \/ MyPoolSuspend \/ MyPoolSchema \/ MyPoolLoad \/ MyPoolInsert
  \/ MyPoolFinish \/ MyPoolDone

SpecPool == PoolInit /\ [][PoolNext]_vars

\* C28: with the statements of a restore going through a pool of
\* connections, every row is loaded on a session on which enforcement was
\* suspended, and once the restore has returned no session of the pool is
\* left with enforcement suspended.
C28_SuspensionFollowsSessions ==
  /\ loadedOn \subseteq {"suspended"}
  /\ result # "running" => \A c \in Conns : sessions[c] # "suspended"

\* ===================================================================
\* Part 13. The integer keys the generator writes
\* ===================================================================
\* The columns of table t flagged primary or unique whose type is an
\* integer or serial type.
IntegerKeyColumns(t) ==
  {j \in 1..Len(genSchema[t].columns) :
     /\ genSchema[t].columns[j].isPrimary \/ genSchema[t].columns[j].isUnique
     /\ \/ TypeContains(LowerType(genSchema[t].columns[j].type), "int")
        \/ TypeContains(LowerType(genSchema[t].columns[j].type), "serial")}

\* C29: every value the generator writes in a primary or unique column of
\* integer or serial type is a decimal integer literal, also when tables
\* share the column name and the attempts of generateUniqueValue run out.
C29_IntegerKeysAreLiterals ==
  \A t \in WrittenTables : \A j \in IntegerKeyColumns(t) :
    \A a \in 1..Len(RowFile(t).rows) : IsInt(RowFile(t).rows[a][j])

\* ===================================================================
\* Part 14. Present and absent text values
\* ===================================================================
\* C30: a string stored in a text column, the empty string and the texts
\* NULL and null included, is read back as that string after export and
\* import, and only a database NULL is read back as absent.
C30_PresenceSurvives ==
  (pc = "cell" /\ cpc = "imported" /\ colType = "text" /\ native # NoValue) =>
    /\ native = GoNil <=> imported = GoNil
    /\ native # GoNil => imported = GoString(native.s)

====
